---- MODULE Spec2Model ----
(***************************************************************************)
(* session-proxy: the `serve` command's request router, context cache,    *)
(* direct fetcher, cookie matcher/merger and session store, as a state     *)
(* machine.  Strings of the program are sequences of one-character         *)
(* strings, so that startsWith / endsWith / includes / split are computed  *)
(* as the JavaScript computes them.                                        *)
(*                                                                         *)
(* Spec          the server handling requests                              *)
(* SpecStore     direct requests for one session whose upstream sets       *)
(*               cookies                                                   *)
(* SpecShutdown  renders in flight while a signal shuts the server down    *)
(* SpecMatch     buildCookieHeader applied to a cookie and a target URL    *)
(* SpecMerge     one Set-Cookie directive merged into a session record     *)
(* SpecResolve   resolveSessionPath applied to a name or path              *)
(* SpecBatch     updateSessionCookies applied to a batch of directives     *)
(* SpecStream    the headers of responses streamed from the upstream       *)
(* SpecFetch     directFetch against an upstream that redirects for ever   *)
(* SpecSurvive   both paths on a server whose cache may hold a context     *)
(* SpecSignals   renders in flight and repeated signals                    *)
(* SpecRace      handleRequest of the serve command that renders every     *)
(*               request (src/unnamed/part_001)                            *)
(***************************************************************************)
EXTENDS Naturals, Integers, Sequences, FiniteSets, TLC

(* ------------------------------------------------------------------ *)
(* Bounds of the model                                                  *)
(* ------------------------------------------------------------------ *)

\* requests received over the life of the process
MaxRequests == 2
\* redirects one direct fetch is allowed to follow in the model
MaxRedirects == 1
\* browser contexts created over the life of the process
MaxContexts == 3
\* signals (SIGINT, SIGTERM) delivered to the process
MaxSignals == 1
\* characters of a cookie's domain
MaxDomainLen == 4
\* cookies of a session record the merge is applied to
MaxCookies == 2
\* characters of a session name or path given to resolveSessionPath
MaxNameLen == 5
MaxBatch == 2

\* connections handled concurrently (request slots)
Slots == {1, 2}

(* ------------------------------------------------------------------ *)
(* Strings                                                              *)
(* ------------------------------------------------------------------ *)

\* String.prototype.startsWith
StartsWith(s, p) ==
    /\ Len(p) <= Len(s)
    /\ SubSeq(s, 1, Len(p)) = p

\* String.prototype.endsWith
EndsWith(s, p) ==
    /\ Len(p) <= Len(s)
    /\ SubSeq(s, Len(s) - Len(p) + 1, Len(s)) = p

\* String.prototype.includes
Includes(s, p) ==
    \E i \in 0..(Len(s) - Len(p)) : SubSeq(s, i + 1, i + Len(p)) = p

\* the positions of character ch in s
Positions(s, ch) == {i \in 1..Len(s) : s[i] = ch}

\* the greatest element of a non-empty set of naturals
MaxOf(S) == CHOOSE m \in S : \A k \in S : k <= m

\* s.split(ch).pop(): what follows the last ch, or all of s
LastSegment(s, ch) ==
    IF Positions(s, ch) = {} THEN s
    ELSE SubSeq(s, MaxOf(Positions(s, ch)) + 1, Len(s))

(* ------------------------------------------------------------------ *)
(* URLs.  A target URL that `new URL` accepts is a record of its        *)
(* protocol, hostname and pathname; the one it rejects is InvalidUrl.   *)
(* ------------------------------------------------------------------ *)

InvalidUrl == [protocol |-> "", hostname |-> <<>>, pathname |-> <<>>]

\* new URL(url) throws a TypeError on InvalidUrl
UrlParses(u) == u.protocol # ""

HostEC == <<"e", ".", "c">>
HostSEC == <<"s", ".", "e", ".", "c">>

\* https://e.c/f.p : a file
UrlFile == [protocol |-> "https:", hostname |-> HostEC,
            pathname |-> <<"/", "f", ".", "p">>]
\* http://s.e.c/ : a plaintext page on a subdomain
UrlPlain == [protocol |-> "http:", hostname |-> HostSEC, pathname |-> <<"/">>]
\* https://e.c/d/g : a file below a directory
UrlDeep == [protocol |-> "https:", hostname |-> HostEC,
            pathname |-> <<"/", "d", "/", "g">>]

(* ------------------------------------------------------------------ *)
(* Content types                                                        *)
(* ------------------------------------------------------------------ *)

TextHtml == <<"t", "e", "x", "t", "/", "h", "t", "m", "l">>
TextSlash == <<"t", "e", "x", "t", "/">>
CtHtmlUtf8 == TextHtml \o <<";", " ", "c", "h", "a", "r", "s", "e", "t", "=",
                            "u", "t", "f", "-", "8">>
CtPlain == TextSlash \o <<"p", "l", "a", "i", "n">>
CtPdf == <<"a", "p", "p", "l", "i", "c", "a", "t", "i", "o", "n", "/", "p", "d", "f">>
\* no Content-Type header: upstreamRes.headers['content-type'] || ''
CtNone == <<>>

(* ------------------------------------------------------------------ *)
(* Session records (Playwright storageState) and session files          *)
(* ------------------------------------------------------------------ *)

\* an optional field of a cookie object: <<>> when absent, <<v>> when set
NoValue == <<>>

CookieSid == [name |-> <<"s">>, value |-> <<"0">>, domain |-> <<".">> \o HostEC,
              path |-> <<"/">>, secure |-> TRUE, httpOnly |-> FALSE,
              expires |-> NoValue, sameSite |-> NoValue]

\* the record `session-proxy init` leaves on disk
RecInit == [hasCookies |-> TRUE, cookies |-> <<CookieSid>>, origins |-> <<"o">>]
\* a JSON object with no cookies key
RecBare == [hasCookies |-> FALSE, cookies |-> <<>>, origins |-> <<>>]

FileAbsent == [kind |-> "absent", rec |-> RecBare]
FileCorrupt == [kind |-> "corrupt", rec |-> RecBare]
FileOf(rec) == [kind |-> "json", rec |-> rec]
\* a file just opened with flag 'w': truncated to no bytes
FileEmpty == [kind |-> "empty", rec |-> RecBare]
\* the text of one record followed by the tail of the longer text of rec
FileTorn(rec) == [kind |-> "torn", rec |-> rec]

\* how the lengths of JSON.stringify(state, null, 2) compare: the
\* characters of the strings of the record (the punctuation per cookie
\* and per origin counts as one)
RECURSIVE CookiesLength(_)
CookiesLength(cs) ==
    IF cs = <<>> THEN 0
    ELSE 1 + Len(Head(cs).name) + Len(Head(cs).value) + Len(Head(cs).domain)
           + Len(Head(cs).path) + CookiesLength(Tail(cs))

JsonLength(rec) == CookiesLength(rec.cookies) + Len(rec.origins)

\* fs.writeFile after its open: the text of rec is written at offset 0 of
\* the file as it is now.  A file another writer filled with a longer
\* text since the open keeps the tail of that text.
WriteOver(file, rec) ==
    IF file.kind \in {"json", "torn"} /\ JsonLength(file.rec) > JsonLength(rec)
    THEN FileTorn(file.rec)
    ELSE FileOf(rec)

(* ------------------------------------------------------------------ *)
(* lib/session.mjs                                                      *)
(* ------------------------------------------------------------------ *)

DotJson == <<".", "j", "s", "o", "n">>

\* path.basename for POSIX paths
Basename(p) == LastSegment(p, "/")

\* path.extname: from the last "." of the basename, unless the basename
\* starts with that "." or has none
Extname(p) ==
    LET b == Basename(p)
        dots == Positions(b, ".")
    IN IF dots = {} \/ MaxOf(dots) = 1 THEN <<>>
       ELSE SubSeq(b, MaxOf(dots), Len(b))

\* path.isAbsolute for POSIX paths
IsAbsolute(p) == Len(p) > 0 /\ p[1] = "/"

\* path.join(dir, file) for a file with no "." or ".." segment
PathJoin(dir, file) == dir \o <<"/">> \o file

resolveSessionPath(nameOrPath, sessionsDir) ==
    LET file == IF Extname(nameOrPath) = <<>> THEN nameOrPath \o DotJson
                ELSE nameOrPath
    IN IF IsAbsolute(file) THEN file ELSE PathJoin(sessionsDir, file)

\* loadSession: "ok" with the parsed record, or the failure it throws
loadSession(file) ==
    IF file.kind = "absent" THEN [ok |-> FALSE, err |-> "ENOENT", rec |-> RecBare]
    ELSE IF file.kind # "json" THEN [ok |-> FALSE, err |-> "SyntaxError", rec |-> RecBare]
    ELSE [ok |-> TRUE, err |-> "", rec |-> file.rec]

\* mutant: the domain test without the leading dots
CookieMatches_NoDot(c, url, nowSec) ==
    /\ EndsWith(url.hostname, c.domain)
    /\ ~(c.path # <<>> /\ ~StartsWith(url.pathname, c.path))
    /\ ~(c.secure /\ url.protocol # "https:")
    /\ ~(c.expires # NoValue /\ c.expires[1] > 0 /\ c.expires[1] < nowSec)

\* mutant: the secure flag is not looked at
CookieMatches_NoSecure(c, url, nowSec) ==
    LET cookieDomain == IF StartsWith(c.domain, <<".">>) THEN c.domain
                        ELSE <<".">> \o c.domain
        hostDomain == <<".">> \o url.hostname
    IN /\ ~(~EndsWith(hostDomain, cookieDomain) /\ hostDomain # cookieDomain)
       /\ ~(c.path # <<>> /\ ~StartsWith(url.pathname, c.path))
       /\ ~(c.expires # NoValue /\ c.expires[1] > 0 /\ c.expires[1] < nowSec)

\* mutant: the expiry test without `c.expires > 0`
CookieMatches_AnyExpires(c, url, nowSec) ==
    LET cookieDomain == IF StartsWith(c.domain, <<".">>) THEN c.domain
                        ELSE <<".">> \o c.domain
        hostDomain == <<".">> \o url.hostname
    IN /\ ~(~EndsWith(hostDomain, cookieDomain) /\ hostDomain # cookieDomain)
       /\ ~(c.path # <<>> /\ ~StartsWith(url.pathname, c.path))
       /\ ~(c.secure /\ url.protocol # "https:")
       /\ ~(c.expires # NoValue /\ c.expires[1] < nowSec)

\* the filter predicate of buildCookieHeader, for a parsed URL and the
\* current time in epoch seconds
CookieMatches(c, url, nowSec) ==
    LET cookieDomain == IF StartsWith(c.domain, <<".">>) THEN c.domain
                        ELSE <<".">> \o c.domain
        hostDomain == <<".">> \o url.hostname
    IN /\ ~(~EndsWith(hostDomain, cookieDomain) /\ hostDomain # cookieDomain)
       /\ ~(c.path # <<>> /\ ~StartsWith(url.pathname, c.path))
       /\ ~(c.secure /\ url.protocol # "https:")
       /\ ~(c.expires # NoValue /\ c.expires[1] > 0 /\ c.expires[1] < nowSec)

\* Array.prototype.filter, keeping the order
RECURSIVE FilterCookies(_, _, _)
FilterCookies(cs, url, nowSec) ==
    IF cs = <<>> THEN <<>>
    ELSE (IF CookieMatches(Head(cs), url, nowSec) THEN <<Head(cs)>> ELSE <<>>)
         \o FilterCookies(Tail(cs), url, nowSec)

\* buildCookieHeader: the header as the sequence of its name=value pairs
\* ("" is the empty sequence), or the TypeError of `new URL`
buildCookieHeader(state, targetUrl, nowSec) ==
    IF ~state.hasCookies \/ state.cookies = <<>> THEN [ok |-> TRUE, header |-> <<>>]
    ELSE IF ~UrlParses(targetUrl) THEN [ok |-> FALSE, header |-> <<>>]
    ELSE [ok |-> TRUE,
          header |-> [i \in 1..Len(FilterCookies(state.cookies, targetUrl, nowSec)) |->
                        <<FilterCookies(state.cookies, targetUrl, nowSec)[i].name,
                          FilterCookies(state.cookies, targetUrl, nowSec)[i].value>>]]

(* ------------------------------------------------------------------ *)
(* commands/serve.mjs: pure helpers                                     *)
(* ------------------------------------------------------------------ *)

\* mutant: the test looks for 'text/' only
isHtmlPage_AnyText(contentType) == Includes(contentType, TextSlash)

\* mutant: the test compares the whole header with 'text/html'
isHtmlPage_Exact(contentType) == contentType = TextHtml

\* contentType.includes('text/html')
isHtmlPage(contentType) == Includes(contentType, TextHtml)

\* filenameFromUrl: the last path segment, or "download"
Download == <<"d", "o", "w", "n", "l", "o", "a", "d">>

\* mutant: no fallback name
filenameFromUrl_NoFallback(url) == LastSegment(url.pathname, "/")

filenameFromUrl(url) ==
    IF ~UrlParses(url) THEN Download
    ELSE IF LastSegment(url.pathname, "/") = <<>> THEN Download
    ELSE LastSegment(url.pathname, "/")

\* s.split(ch)
RECURSIVE Split(_, _)
Split(s, ch) ==
    IF Positions(s, ch) = {} THEN <<s>>
    ELSE LET i == CHOOSE k \in Positions(s, ch) : \A j \in Positions(s, ch) : k <= j
         IN <<SubSeq(s, 1, i - 1)>> \o Split(SubSeq(s, i + 1, Len(s)), ch)

\* s.trim() for the space character
RECURSIVE Trim(_)
Trim(s) ==
    IF s # <<>> /\ Head(s) = " " THEN Trim(Tail(s))
    ELSE IF s # <<>> /\ s[Len(s)] = " " THEN Trim(SubSeq(s, 1, Len(s) - 1))
    ELSE s

\* toLowerCase on the letters that occur in attribute names
LowerChar(ch) ==
    CASE ch = "D" -> "d" [] ch = "P" -> "p" [] ch = "S" -> "s" [] ch = "H" -> "h"
      [] ch = "E" -> "e" [] ch = "O" -> "o" [] ch = "A" -> "a" [] ch = "T" -> "t"
      [] OTHER -> ch

ToLower(s) == [i \in 1..Len(s) |-> LowerChar(s[i])]

\* s.indexOf(ch), 1-based; 0 when absent (JavaScript: -1)
IndexOf(s, ch) ==
    IF Positions(s, ch) = {} THEN 0
    ELSE CHOOSE k \in Positions(s, ch) : \A j \in Positions(s, ch) : k <= j

AttrDomain == <<"d", "o", "m", "a", "i", "n", "=">>
AttrPath == <<"p", "a", "t", "h", "=">>
AttrSecure == <<"s", "e", "c", "u", "r", "e">>
AttrHttpOnly == <<"h", "t", "t", "p", "o", "n", "l", "y">>
AttrExpires == <<"e", "x", "p", "i", "r", "e", "s", "=">>
AttrSameSite == <<"s", "a", "m", "e", "s", "i", "t", "e", "=">>

\* the date strings the model's upstream sends, with Date.parse of each
\* in milliseconds; any other string parses to NaN (<<>>)
DateT9 == <<"T", "9">>
DateParse(s) == IF s = DateT9 THEN <<9000>> ELSE <<>>

\* the inner loop of updateSessionCookies: one attribute applied
ApplyAttr(cookie, attr) ==
    LET lower == ToLower(attr)
    IN IF StartsWith(lower, AttrDomain)
         THEN [cookie EXCEPT !.domain = SubSeq(attr, 8, Len(attr))]
       ELSE IF StartsWith(lower, AttrPath)
         THEN [cookie EXCEPT !.path = SubSeq(attr, 6, Len(attr))]
       ELSE IF lower = AttrSecure THEN [cookie EXCEPT !.secure = TRUE]
       ELSE IF lower = AttrHttpOnly THEN [cookie EXCEPT !.httpOnly = TRUE]
       ELSE IF StartsWith(lower, AttrExpires)
         THEN IF DateParse(SubSeq(attr, 9, Len(attr))) # <<>>
              THEN [cookie EXCEPT !.expires =
                      <<DateParse(SubSeq(attr, 9, Len(attr)))[1] \div 1000>>]
              ELSE cookie
       ELSE IF StartsWith(lower, AttrSameSite)
         THEN [cookie EXCEPT !.sameSite = <<SubSeq(attr, 10, Len(attr))>>]
       ELSE cookie

RECURSIVE ApplyAttrs(_, _)
ApplyAttrs(cookie, attrs) ==
    IF attrs = <<>> THEN cookie
    ELSE ApplyAttrs(ApplyAttr(cookie, Head(attrs)), Tail(attrs))

\* raw.split(';').map(trim)
DirectiveParts(raw) ==
    [i \in 1..Len(Split(raw, ";")) |-> Trim(Split(raw, ";")[i])]

\* the cookie one Set-Cookie directive describes (nameVal has an "=")
ParseSetCookie(raw, url) ==
    LET parts == DirectiveParts(raw)
        nameVal == Head(parts)
        eqIdx == IndexOf(nameVal, "=")
    IN ApplyAttrs([name |-> SubSeq(nameVal, 1, eqIdx - 1),
                   value |-> SubSeq(nameVal, eqIdx + 1, Len(nameVal)),
                   domain |-> url.hostname, path |-> <<"/">>,
                   secure |-> FALSE, httpOnly |-> FALSE,
                   expires |-> NoValue, sameSite |-> NoValue],
                  Tail(parts))

\* mutant: findIndex by name and domain only
FindCookie_NoPath(cookies, cookie) ==
    LET hits == {i \in 1..Len(cookies) :
                    /\ cookies[i].name = cookie.name
                    /\ cookies[i].domain = cookie.domain}
    IN IF hits = {} THEN 0 ELSE CHOOSE k \in hits : \A j \in hits : k <= j

\* findIndex by name, domain and path; 0 when none (JavaScript: -1)
FindCookie(cookies, cookie) ==
    LET hits == {i \in 1..Len(cookies) :
                    /\ cookies[i].name = cookie.name
                    /\ cookies[i].domain = cookie.domain
                    /\ cookies[i].path = cookie.path}
    IN IF hits = {} THEN 0 ELSE CHOOSE k \in hits : \A j \in hits : k <= j

\* one iteration of the loop over setCookieHeaders
MergeOne(state, raw, url) ==
    IF IndexOf(Head(DirectiveParts(raw)), "=") = 0 THEN state
    ELSE LET cookie == ParseSetCookie(raw, url)
             cookies == IF state.hasCookies THEN state.cookies ELSE <<>>
             idx == FindCookie(cookies, cookie)
         IN [state EXCEPT !.hasCookies = TRUE,
                          !.cookies = IF idx > 0 THEN [cookies EXCEPT ![idx] = cookie]
                                      ELSE Append(cookies, cookie)]

\* the loop of updateSessionCookies over the Set-Cookie headers
RECURSIVE MergeSetCookies(_, _, _)
MergeSetCookies(state, setCookieHeaders, url) ==
    IF setCookieHeaders = <<>> THEN state
    ELSE MergeSetCookies(MergeOne(state, Head(setCookieHeaders), url),
                         Tail(setCookieHeaders), url)

(* ------------------------------------------------------------------ *)
(* The environment of the server: requests, session files, upstream     *)
(* ------------------------------------------------------------------ *)

SessionsDir == <<"/", "d">>
SessionNames == {<<"a">>, <<"b">>}
SessionPaths == {resolveSessionPath(n, SessionsDir) : n \in SessionNames}

\* an optional query parameter: <<>> when searchParams.get gives null or ''
NoParam == <<>>

\* requests the clients send: req.url that `new URL` rejects, another
\* path, and /v1 with or without its two parameters
RequestInputs ==
    {[method |-> "GET", parses |-> FALSE, pathname |-> "", session |-> NoParam,
      url |-> NoParam],
     [method |-> "GET", parses |-> TRUE, pathname |-> "/other",
      session |-> << <<"a">> >>, url |-> <<UrlFile>>],
     [method |-> "POST", parses |-> TRUE, pathname |-> "/v1",
      session |-> << <<"a">> >>, url |-> <<UrlFile>>],
     [method |-> "GET", parses |-> TRUE, pathname |-> "/v1",
      session |-> << <<"a">> >>, url |-> <<InvalidUrl>>]}
    \cup {[method |-> "GET", parses |-> TRUE, pathname |-> "/v1", session |-> s,
           url |-> u] : s \in {NoParam} \cup {<<n>> : n \in SessionNames},
                        u \in {NoParam, <<UrlFile>>}}

\* Date.now() / 1000 at the time a cookie header is built
Times == {5, 50}

\* "t=1; Path=/"
RawSetT == <<"t", "=", "1", ";", " ", "P", "a", "t", "h", "=", "/">>

\* terminal responses of the upstream: resolve(res) of directFetch.
\* `disposition` is the truth value line 94 tests: the response carries a
\* Content-Disposition header whose value is not the empty string
UpstreamResponses ==
    {[status |-> 200, contentType |-> CtPdf, disposition |-> FALSE, setCookie |-> <<>>],
     [status |-> 200, contentType |-> CtPdf, disposition |-> TRUE,
      setCookie |-> <<RawSetT>>],
     [status |-> 404, contentType |-> CtPlain, disposition |-> FALSE, setCookie |-> <<>>],
     [status |-> 304, contentType |-> CtNone, disposition |-> FALSE, setCookie |-> <<>>],
     [status |-> 200, contentType |-> CtHtmlUtf8, disposition |-> FALSE,
      setCookie |-> <<>>]}

\* 3xx responses with a Location header: an absolute URL, or a value that
\* `new URL(location, url)` rejects (such as "http://"); and the
\* Set-Cookie headers of the response
Locations ==
    {[valid |-> TRUE, url |-> UrlPlain, setCookie |-> <<>>],
     [valid |-> FALSE, url |-> InvalidUrl, setCookie |-> <<>>]}

(* ------------------------------------------------------------------ *)
(* State                                                                *)
(* ------------------------------------------------------------------ *)

VARIABLES
    files,         \* the sessions directory: session path -> file
    contextCache,  \* the Map of serve.mjs: sequence of <<sessionPath, context>>
    contexts,      \* every context createContext returned, by handle
    rq,            \* per connection slot: the request being handled
    received,      \* requests received so far
    proc,          \* the process: listening, browser open, crashed, exited
                   \* (no signal is delivered in Spec: the server keeps
                   \* listening and the browser stays open)
    sd,            \* the shutdown handler: one run per signal delivered
    fn             \* a library function applied on its own: call and result

vars == <<files, contextCache, contexts, rq, received, proc, sd, fn>>

\* Map.prototype.has / get / set, insertion order kept
CacheHas(cache, key) == \E i \in 1..Len(cache) : cache[i][1] = key

CacheGet(cache, key) ==
    cache[CHOOSE i \in 1..Len(cache) : cache[i][1] = key][2]

CacheSet(cache, key, value) ==
    IF CacheHas(cache, key)
    THEN [i \in 1..Len(cache) |->
            IF cache[i][1] = key THEN <<key, value>> ELSE cache[i]]
    ELSE Append(cache, <<key, value>>)

CtJson == <<"a", "p", "p", "l", "i", "c", "a", "t", "i", "o", "n", "/", "j", "s", "o", "n">>

NoBody == [kind |-> "none", msg |-> "", ctx |-> 0, url |-> InvalidUrl]
NoDisposition == [kind |-> "none", filename |-> <<>>]
NoResponse == [heads |-> 0, status |-> 0, ctype |-> <<>>, dispo |-> NoDisposition,
               body |-> NoBody]

\* res.writeHead(status, headers) followed by the body (res.end or pipe)
WriteHead(resp, status, ctype, dispo, body) ==
    [heads |-> resp.heads + 1, status |-> status, ctype |-> ctype, dispo |-> dispo,
     body |-> body]

\* res.end was called for the response (lines 63, 72, 123, 132); a body
\* piped from the upstream (line 100) is ended by the pipe, when the
\* upstream ends, and no line destroys the response or its socket
ResponseEnded(resp) == resp.body.kind \in {"json", "rendered"}

JsonError(msg) == [kind |-> "json", msg |-> msg, ctx |-> 0, url |-> InvalidUrl]

IdleRequest ==
    [pc |-> "idle",
     req |-> [method |-> "", parses |-> FALSE, pathname |-> "", session |-> NoParam,
              url |-> NoParam],
     sessionPath |-> <<>>, state |-> RecBare, cookieHeader |-> <<>>,
     curUrl |-> InvalidUrl, redirects |-> 0, redirSet |-> <<>>, term |-> <<>>,
     upstream |-> "none", ctx |-> 0, page |-> "none", nav |-> "none", body |-> NoBody,
     pending |-> "", caught |-> "", resp |-> NoResponse, loads |-> 0, fetches |-> 0]

Running == ~proc.crashed /\ ~proc.exited

\* no signal was delivered: no run of `shutdown`, nothing attempted
NoShutdown == [runs |-> <<>>, cachedAtSignal |-> {}, persistTried |-> {},
               closeTried |-> {}]

\* no library function is being applied on its own
NoCall == [f |-> "none"]

\* the state after construction; the session file of b is there (a
\* missing or unreadable session file is the case of session a)
Init ==
    /\ files \in {f \in [SessionPaths -> {FileAbsent, FileCorrupt, FileOf(RecInit)}] :
                    f[resolveSessionPath(<<"b">>, SessionsDir)] = FileOf(RecInit)}
    /\ contextCache = <<>>
    /\ contexts = <<>>
    /\ rq = [r \in Slots |-> IdleRequest]
    /\ received = 0
    /\ proc = [listening |-> TRUE, browserOpen |-> TRUE, crashed |-> FALSE,
               exited |-> FALSE]
    /\ sd = NoShutdown
    /\ fn = NoCall

(* ------------------------------------------------------------------ *)
(* The request handler of http.createServer (serve.mjs 56-135)          *)
(* ------------------------------------------------------------------ *)

\* the handler returns: its locals are gone, what it did to the response,
\* the page and the upstream response stays
Return(q) ==
    [q EXCEPT !.pc = "done", !.state = RecBare, !.cookieHeader = <<>>,
              !.curUrl = InvalidUrl, !.redirects = 0, !.body = NoBody, !.pending = ""]

\* mutant: the catch block writes nothing
Catch_Silent(q, msg) == Return([q EXCEPT !.caught = msg])

\* the catch block: a 500 with the failure's message unless headers were sent
Catch(q, msg) ==
    Return([q EXCEPT !.caught = msg,
                     !.resp = IF q.resp.heads = 0
                              THEN WriteHead(q.resp, 500, CtJson, NoDisposition,
                                             JsonError(msg))
                              ELSE q.resp])

\* mutant: the pathname is not checked
ParseRequest_AnyPath(q) ==
    IF ~q.req.parses THEN Catch(q, "Invalid URL")
    ELSE IF q.req.session = NoParam \/ q.req.url = NoParam
      THEN Return([q EXCEPT !.resp = WriteHead(q.resp, 400, CtJson, NoDisposition,
                          JsonError("Missing required query parameters: session, url"))])
    ELSE [q EXCEPT !.pc = "load",
                   !.sessionPath = resolveSessionPath(q.req.session[1], SessionsDir)]

\* lines 58-77: parse the request up to the first await
ParseRequest(q) ==
    IF ~q.req.parses THEN Catch(q, "Invalid URL")
    ELSE IF q.req.pathname # "/v1"
      THEN Return([q EXCEPT !.resp = WriteHead(q.resp, 404, CtJson, NoDisposition,
                                               JsonError("Not found"))])
    ELSE IF q.req.session = NoParam \/ q.req.url = NoParam
      THEN Return([q EXCEPT !.resp = WriteHead(q.resp, 400, CtJson, NoDisposition,
                          JsonError("Missing required query parameters: session, url"))])
    ELSE [q EXCEPT !.pc = "load",
                   !.sessionPath = resolveSessionPath(q.req.session[1], SessionsDir)]

\* a request arrives on a free connection slot
Receive(r, inp) ==
    /\ Running /\ proc.listening
    /\ rq[r].pc \in {"idle", "done"}
    /\ received < MaxRequests
    /\ received' = received + 1
    /\ rq' = [rq EXCEPT ![r] = ParseRequest([IdleRequest EXCEPT !.req = inp])]
    /\ UNCHANGED <<files, contextCache, contexts, proc, sd, fn>>

\* directFetch(url, cookieHeader) up to mod.get: the request is sent, or
\* the promise rejects (new URL throws in the executor)
StartFetch(q, url) ==
    IF ~UrlParses(url) THEN Catch(q, "Invalid URL")
    ELSE [q EXCEPT !.pc = "fetch", !.curUrl = url, !.fetches = q.fetches + 1]

\* lines 81-84: loadSession settles; build the header and start the fetch
LoadDone(r) ==
    /\ Running
    /\ rq[r].pc = "load"
    /\ \E nowSec \in Times :
         LET q == [rq[r] EXCEPT !.loads = rq[r].loads + 1]
             ld == loadSession(files[q.sessionPath])
             ch == buildCookieHeader(ld.rec, q.req.url[1], nowSec)
         IN rq' = [rq EXCEPT ![r] =
                     IF ~ld.ok THEN Catch(q, ld.err)
                     ELSE IF ~ch.ok THEN Catch(q, "Invalid URL")
                     ELSE StartFetch([q EXCEPT !.state = ld.rec,
                                               !.cookieHeader = ch.header],
                                     q.req.url[1])]
    /\ UNCHANGED <<files, contextCache, contexts, received, proc, sd, fn>>

\* lines 88-106: the non-HTML branch, up to the await of saveSession
DirectStream(q, up) ==
    LET dispo == IF up.disposition THEN [kind |-> "upstream", filename |-> <<>>]
                 ELSE IF ~StartsWith(up.contentType, TextSlash)
                   THEN [kind |-> "synth", filename |-> filenameFromUrl(q.req.url[1])]
                 ELSE NoDisposition
        sent == [q EXCEPT !.upstream = "piped", !.term = <<up>>,
                          !.resp = WriteHead(q.resp, up.status, up.contentType, dispo,
                                             [kind |-> "upstream", msg |-> "", ctx |-> 0,
                                              url |-> q.curUrl])]
    IN IF up.setCookie = <<>> THEN Return(sent)
       ELSE [sent EXCEPT !.pc = "save",
                         !.state = MergeSetCookies(q.state, up.setCookie, q.req.url[1])]

\* getContext up to its first await: a cache hit returns the cached
\* context (and the handler calls newPage), a miss starts loadSession
getContext(q, cache) ==
    IF CacheHas(cache, q.sessionPath)
    THEN [q EXCEPT !.ctx = CacheGet(cache, q.sessionPath), !.pc = "newPage"]
    ELSE [q EXCEPT !.pc = "ctxLoad"]

\* lines 85-113: branch on the Content-Type of the terminal response
Dispatch(q, up, cache) ==
    IF ~isHtmlPage(up.contentType) THEN DirectStream(q, up)
    ELSE getContext([q EXCEPT !.upstream = "destroyed", !.term = <<up>>], cache)

\* directFetch resolves with a terminal response (not 3xx, or no Location)
FetchResponse(r, up) ==
    /\ Running
    /\ rq[r].pc = "fetch"
    /\ rq' = [rq EXCEPT ![r] = Dispatch(rq[r], up, contextCache)]
    /\ UNCHANGED <<files, contextCache, contexts, received, proc, sd, fn>>

\* lines 189-194: a 3xx with a Location the URL parser accepts is followed
\* with the same cookie header; the response is destroyed with its headers
\* (redirSet keeps the Set-Cookie headers it carried, for the properties)
FetchRedirect(r, loc) ==
    /\ Running
    /\ rq[r].pc = "fetch"
    /\ loc.valid
    /\ rq[r].redirects < MaxRedirects
    /\ rq' = [rq EXCEPT ![r] =
                StartFetch([rq[r] EXCEPT !.redirects = rq[r].redirects + 1,
                                         !.redirSet = rq[r].redirSet \o loc.setCookie],
                           loc.url)]
    /\ UNCHANGED <<files, contextCache, contexts, received, proc, sd, fn>>

\* line 191: `new URL(res.headers.location, url)` throws inside the response
\* callback of mod.get, outside the promise executor and outside the
\* handler's try: an uncaught exception, which ends the process
FetchBadLocation(r, loc) ==
    /\ Running
    /\ rq[r].pc = "fetch"
    /\ ~loc.valid
    /\ proc' = [proc EXCEPT !.crashed = TRUE]
    /\ UNCHANGED <<files, contextCache, contexts, rq, received, sd, fn>>

\* line 198: req.on('error', reject)
FetchError(r) ==
    /\ Running
    /\ rq[r].pc = "fetch"
    /\ rq' = [rq EXCEPT ![r] = Catch(rq[r], "ECONNREFUSED")]
    /\ UNCHANGED <<files, contextCache, contexts, received, proc, sd, fn>>

\* lines 275-276 and saveSession: mkdir resolved and fs.writeFile opened
\* the session file with flag 'w', which truncates it
SaveOpen(r) ==
    /\ Running
    /\ rq[r].pc = "save"
    /\ files' = [files EXCEPT ![rq[r].sessionPath] = FileEmpty]
    /\ rq' = [rq EXCEPT ![r].pc = "write"]
    /\ UNCHANGED <<contextCache, contexts, received, proc, sd, fn>>

\* fs.writeFile wrote the text of the merged record and resolves; the
\* handler returns
SaveDone(r) ==
    /\ Running
    /\ rq[r].pc = "write"
    /\ files' = [files EXCEPT ![rq[r].sessionPath] =
                    WriteOver(files[rq[r].sessionPath], rq[r].state)]
    /\ rq' = [rq EXCEPT ![r] = Return(rq[r])]
    /\ UNCHANGED <<contextCache, contexts, received, proc, sd, fn>>

\* saveSession rejects (mkdir or the open of writeFile fails): the
\* handler's catch runs after the head was written
SaveFail(r) ==
    /\ Running
    /\ rq[r].pc = "save"
    /\ rq' = [rq EXCEPT ![r] = Catch(rq[r], "EACCES")]
    /\ UNCHANGED <<files, contextCache, contexts, received, proc, sd, fn>>

\* getContext line 47: loadSession settles, createContext is called
CtxLoadDone(r) ==
    /\ Running
    /\ rq[r].pc = "ctxLoad"
    /\ LET q == [rq[r] EXCEPT !.loads = rq[r].loads + 1]
           ld == loadSession(files[q.sessionPath])
       IN rq' = [rq EXCEPT ![r] =
                   IF ~ld.ok THEN Catch(q, ld.err)
                   ELSE [q EXCEPT !.pc = "ctxCreate", !.state = ld.rec]]
    /\ UNCHANGED <<files, contextCache, contexts, received, proc, sd, fn>>

\* getContext lines 48-53: createContext resolves; the context is cached
\* and the handler calls newPage
CtxCreateDone(r) ==
    /\ Running /\ proc.browserOpen
    /\ rq[r].pc = "ctxCreate"
    /\ Len(contexts) < MaxContexts
    /\ contexts' = Append(contexts, [path |-> rq[r].sessionPath, closed |-> FALSE,
                                     state |-> rq[r].state])
    /\ contextCache' = CacheSet(contextCache, rq[r].sessionPath, Len(contexts) + 1)
    /\ rq' = [rq EXCEPT ![r].ctx = Len(contexts) + 1, ![r].pc = "newPage"]
    /\ UNCHANGED <<files, received, proc, sd, fn>>

\* createContext rejects
CtxCreateFail(r) ==
    /\ Running
    /\ rq[r].pc = "ctxCreate"
    /\ rq' = [rq EXCEPT ![r] = Catch(rq[r], "createContext failed")]
    /\ UNCHANGED <<files, contextCache, contexts, received, proc, sd, fn>>

\* line 114: context.newPage() resolves; page.goto is called
NewPageDone(r) ==
    /\ Running /\ proc.browserOpen
    /\ rq[r].pc = "newPage"
    /\ ~contexts[rq[r].ctx].closed
    /\ rq' = [rq EXCEPT ![r].page = "open", ![r].pc = "goto"]
    /\ UNCHANGED <<files, contextCache, contexts, received, proc, sd, fn>>

\* context.newPage() rejects, before the try/finally is entered
NewPageFail(r) ==
    /\ Running
    /\ rq[r].pc = "newPage"
    /\ rq' = [rq EXCEPT ![r] = Catch(rq[r], "newPage failed")]
    /\ UNCHANGED <<files, contextCache, contexts, received, proc, sd, fn>>

\* the finally block is entered: page.close() is called, the failure (if
\* any) stays pending until it settles
Finally(q, failure) == [q EXCEPT !.pc = "close", !.pending = failure]

\* line 117: page.goto resolves; page.content is called
GotoDone(r) ==
    /\ Running /\ proc.browserOpen
    /\ rq[r].pc = "goto"
    /\ ~contexts[rq[r].ctx].closed
    /\ rq' = [rq EXCEPT ![r].pc = "content", ![r].nav = "ok"]
    /\ UNCHANGED <<files, contextCache, contexts, received, proc, sd, fn>>

\* page.goto rejects: a navigation error or the 60 s timeout
GotoFail(r) ==
    /\ Running
    /\ rq[r].pc = "goto"
    /\ rq' = [rq EXCEPT ![r] = Finally([rq[r] EXCEPT !.nav = "failed"],
                                        "Timeout 60000ms exceeded")]
    /\ UNCHANGED <<files, contextCache, contexts, received, proc, sd, fn>>

\* line 118: page.content() resolves; persistContextSession is called
ContentDone(r) ==
    /\ Running /\ proc.browserOpen
    /\ rq[r].pc = "content"
    /\ ~contexts[rq[r].ctx].closed
    /\ rq' = [rq EXCEPT ![r].pc = "persist",
                        ![r].body = [kind |-> "rendered", msg |-> "", ctx |-> rq[r].ctx,
                                     url |-> rq[r].req.url[1]]]
    /\ UNCHANGED <<files, contextCache, contexts, received, proc, sd, fn>>

\* page.content() rejects
ContentFail(r) ==
    /\ Running
    /\ rq[r].pc = "content"
    /\ rq' = [rq EXCEPT ![r] = Finally(rq[r], "content failed")]
    /\ UNCHANGED <<files, contextCache, contexts, received, proc, sd, fn>>

\* lines 120-124: persistContextSession resolves (the context's state is
\* the session file); the 200 and the rendered body are written
Rendered(q) ==
    Finally([q EXCEPT !.resp = WriteHead(q.resp, 200,
                                IF q.term[1].contentType # <<>>
                                THEN q.term[1].contentType ELSE CtHtmlUtf8,
                                NoDisposition, q.body)], "")

PersistDone(r) ==
    /\ Running /\ proc.browserOpen
    /\ rq[r].pc = "persist"
    /\ ~contexts[rq[r].ctx].closed
    /\ files' = [files EXCEPT ![rq[r].sessionPath] = FileOf(contexts[rq[r].ctx].state)]
    /\ rq' = [rq EXCEPT ![r] = Rendered(rq[r])]
    /\ UNCHANGED <<contextCache, contexts, received, proc, sd, fn>>

\* line 120: persistContextSession rejects; control leaves the try block
\* before writeHead
PersistFailed(q) == Finally(q, "EACCES")

PersistFail(r) ==
    /\ Running
    /\ rq[r].pc = "persist"
    /\ rq' = [rq EXCEPT ![r] = PersistFailed(rq[r])]
    /\ UNCHANGED <<files, contextCache, contexts, received, proc, sd, fn>>

\* lines 125-134: page.close() settled; a pending failure reaches the catch
PageClosed(q) ==
    IF q.pending # "" THEN Catch([q EXCEPT !.page = "closed"], q.pending)
    ELSE Return([q EXCEPT !.page = "closed"])

CloseDone(r) ==
    /\ Running
    /\ rq[r].pc = "close"
    /\ rq' = [rq EXCEPT ![r] = PageClosed(rq[r])]
    /\ UNCHANGED <<files, contextCache, contexts, received, proc, sd, fn>>

\* page.close() rejects (the engine lost the page): its error replaces the
\* pending one and reaches the catch
CloseFail(r) ==
    /\ Running
    /\ rq[r].pc = "close"
    /\ rq' = [rq EXCEPT ![r] = Catch([rq[r] EXCEPT !.page = "closed"], "Target closed")]
    /\ UNCHANGED <<files, contextCache, contexts, received, proc, sd, fn>>

Next ==
    \/ \E r \in Slots, inp \in RequestInputs : Receive(r, inp)
    \/ \E r \in Slots : LoadDone(r)
    \/ \E r \in Slots, up \in UpstreamResponses : FetchResponse(r, up)
    \/ \E r \in Slots, loc \in Locations : FetchRedirect(r, loc)
    \/ \E r \in Slots, loc \in Locations : FetchBadLocation(r, loc)
    \/ \E r \in Slots : FetchError(r)
    \/ \E r \in Slots : SaveOpen(r)
    \/ \E r \in Slots : SaveDone(r)
    \/ \E r \in Slots : SaveFail(r)
    \/ \E r \in Slots : CtxLoadDone(r)
    \/ \E r \in Slots : CtxCreateDone(r)
    \/ \E r \in Slots : CtxCreateFail(r)
    \/ \E r \in Slots : NewPageDone(r)
    \/ \E r \in Slots : NewPageFail(r)
    \/ \E r \in Slots : GotoDone(r)
    \/ \E r \in Slots : GotoFail(r)
    \/ \E r \in Slots : ContentDone(r)
    \/ \E r \in Slots : ContentFail(r)
    \/ \E r \in Slots : PersistDone(r)
    \/ \E r \in Slots : PersistFail(r)
    \/ \E r \in Slots : CloseDone(r)
    \/ \E r \in Slots : CloseFail(r)

Spec == Init /\ [][Next]_vars

(* ------------------------------------------------------------------ *)
(* Graceful shutdown (serve.mjs 143-159).  Every delivery of SIGINT or  *)
(* SIGTERM starts one run of the async function `shutdown`; a run is    *)
(* its position: awaiting persistContextSession or context.close() for  *)
(* the cache entry at idx, or awaiting browser.close().                 *)
(* ------------------------------------------------------------------ *)

\* the for-of loop over contextCache reaches entry idx: the Map iterator
\* is live, so the entry is read from the cache as it is now; with an
\* entry, persistContextSession is called for it, past the last entry
\* browser.close() is called
Iterate(idx, cache) ==
    IF idx <= Len(cache) THEN [pc |-> "persist", idx |-> idx, ctx |-> cache[idx][2]]
    ELSE [pc |-> "browserClose", idx |-> idx, ctx |-> 0]

\* the contexts for which persistContextSession was called by a run
Attempted(run, tried) == IF run.pc = "persist" THEN tried \cup {run.ctx} ELSE tried

\* lines 143-148 and 158-159: a signal is delivered, the handlers of
\* SIGINT and SIGTERM being the same function and staying registered;
\* server.close() and the first iteration of the loop run before the
\* first await.  At most max signals are delivered.
Deliver(max) ==
    /\ Running
    /\ Len(sd.runs) < max
    /\ proc' = [proc EXCEPT !.listening = FALSE]
    /\ sd' = [sd EXCEPT !.runs = Append(sd.runs, Iterate(1, contextCache)),
                        !.cachedAtSignal =
                            IF sd.runs = <<>>
                            THEN {contextCache[k][2] : k \in 1..Len(contextCache)}
                            ELSE sd.cachedAtSignal,
                        !.persistTried = Attempted(Iterate(1, contextCache),
                                                   sd.persistTried)]
    /\ UNCHANGED <<files, contextCache, contexts, rq, received, fn>>

Signal == Deliver(MaxSignals)

\* lines 148-149: persistContextSession resolves (the context's state is
\* written to the entry's session path); context.close() is called
SdPersistDone(i) ==
    /\ Running /\ proc.browserOpen
    /\ i \in 1..Len(sd.runs) /\ sd.runs[i].pc = "persist"
    /\ ~contexts[sd.runs[i].ctx].closed
    /\ files' = [files EXCEPT ![contextCache[sd.runs[i].idx][1]] =
                    FileOf(contexts[sd.runs[i].ctx].state)]
    /\ sd' = [sd EXCEPT !.runs[i].pc = "close",
                        !.closeTried = sd.closeTried \cup {sd.runs[i].ctx}]
    /\ UNCHANGED <<contextCache, contexts, rq, received, proc, fn>>

\* lines 148-152: persistContextSession rejects; the catch swallows it and
\* the loop goes on with the next entry, context.close() is not called
SdPersistFail(i) ==
    /\ Running
    /\ i \in 1..Len(sd.runs) /\ sd.runs[i].pc = "persist"
    /\ sd' = [sd EXCEPT !.runs[i] = Iterate(sd.runs[i].idx + 1, contextCache),
                        !.persistTried =
                            Attempted(Iterate(sd.runs[i].idx + 1, contextCache),
                                      sd.persistTried)]
    /\ UNCHANGED <<files, contextCache, contexts, rq, received, proc, fn>>

\* line 149: context.close() resolves; the loop goes on
SdCloseDone(i) ==
    /\ Running
    /\ i \in 1..Len(sd.runs) /\ sd.runs[i].pc = "close"
    /\ contexts' = [contexts EXCEPT ![sd.runs[i].ctx].closed = TRUE]
    /\ sd' = [sd EXCEPT !.runs[i] = Iterate(sd.runs[i].idx + 1, contextCache),
                        !.persistTried =
                            Attempted(Iterate(sd.runs[i].idx + 1, contextCache),
                                      sd.persistTried)]
    /\ UNCHANGED <<files, contextCache, rq, received, proc, fn>>

\* lines 149-152: context.close() rejects; the catch swallows it
SdCloseFail(i) ==
    /\ Running
    /\ i \in 1..Len(sd.runs) /\ sd.runs[i].pc = "close"
    /\ sd' = [sd EXCEPT !.runs[i] = Iterate(sd.runs[i].idx + 1, contextCache),
                        !.persistTried =
                            Attempted(Iterate(sd.runs[i].idx + 1, contextCache),
                                      sd.persistTried)]
    /\ UNCHANGED <<files, contextCache, contexts, rq, received, proc, fn>>

\* lines 154-155: browser.close() resolves (the browser and all of its
\* contexts are gone) and process.exit(0) ends the process
SdBrowserClosed(i) ==
    /\ Running
    /\ i \in 1..Len(sd.runs) /\ sd.runs[i].pc = "browserClose"
    /\ contexts' = [k \in 1..Len(contexts) |-> [contexts[k] EXCEPT !.closed = TRUE]]
    /\ proc' = [proc EXCEPT !.browserOpen = FALSE, !.exited = TRUE]
    /\ sd' = [sd EXCEPT !.runs[i].pc = "exit"]
    /\ UNCHANGED <<files, contextCache, rq, received, fn>>

\* line 154: browser.close() rejects; nothing catches the rejection of
\* `shutdown`, which ends the process without process.exit(0)
SdBrowserCloseFail(i) ==
    /\ Running
    /\ i \in 1..Len(sd.runs) /\ sd.runs[i].pc = "browserClose"
    /\ proc' = [proc EXCEPT !.crashed = TRUE]
    /\ sd' = [sd EXCEPT !.runs[i].pc = "rejected"]
    /\ UNCHANGED <<files, contextCache, contexts, rq, received, fn>>


(* ------------------------------------------------------------------ *)
(* The session store under direct requests for one session whose        *)
(* upstream sets cookies, on redirects and on terminal responses         *)
(* ------------------------------------------------------------------ *)

\* "u=22"
RawSetU == <<"u", "=", "2", "2">>

StoreInputs ==
    {[method |-> "GET", parses |-> TRUE, pathname |-> "/v1",
      session |-> << <<"a">> >>, url |-> <<UrlFile>>]}

StoreResponses ==
    {[status |-> 200, contentType |-> CtPdf, disposition |-> FALSE, setCookie |-> sc] :
        sc \in {<<>>, <<RawSetT>>, <<RawSetU>>}}

StoreLocations ==
    {[valid |-> TRUE, url |-> UrlPlain, setCookie |-> sc] : sc \in {<<>>, <<RawSetU>>}}

InitStore ==
    /\ files = [p \in SessionPaths |-> FileOf(RecInit)]
    /\ contextCache = <<>>
    /\ contexts = <<>>
    /\ rq = [r \in Slots |-> IdleRequest]
    /\ received = 0
    /\ proc = [listening |-> TRUE, browserOpen |-> TRUE, crashed |-> FALSE,
               exited |-> FALSE]
    /\ sd = NoShutdown
    /\ fn = NoCall

NextStore ==
    \/ \E r \in Slots, inp \in StoreInputs : Receive(r, inp)
    \/ \E r \in Slots : LoadDone(r)
    \/ \E r \in Slots, up \in StoreResponses : FetchResponse(r, up)
    \/ \E r \in Slots, loc \in StoreLocations : FetchRedirect(r, loc)
    \/ \E r \in Slots : FetchError(r)
    \/ \E r \in Slots : SaveOpen(r)
    \/ \E r \in Slots : SaveDone(r)
    \/ \E r \in Slots : SaveFail(r)

SpecStore == InitStore /\ [][NextStore]_vars

(* ------------------------------------------------------------------ *)
(* handleRequest(page, url) of the serve command that renders every     *)
(* request (src/unnamed/part_001, 156-194): the navigation raced with   *)
(* the page's download event                                            *)
(* ------------------------------------------------------------------ *)

\* setTimeout(() => reject(err), 5000), in seconds
WaitSeconds == 5

\* a call: `download` is the variable of line 159 (<<>> for null), nav the
\* state of the promise of page.goto, waited the seconds since the timer
\* of line 181 was set; dlAt records when the download event fired (for
\* the properties)
InitRace ==
    /\ files = [p \in SessionPaths |-> FileOf(RecInit)]
    /\ contextCache = <<>>
    /\ contexts = <<>>
    /\ rq = [r \in Slots |-> IdleRequest]
    /\ received = 0
    /\ proc = [listening |-> TRUE, browserOpen |-> TRUE, crashed |-> FALSE,
               exited |-> FALSE]
    /\ sd = NoShutdown
    /\ \E u \in {UrlFile, UrlPlain, UrlDeep} :
         fn = [f |-> "handleRequest", pc |-> "race", url |-> u, download |-> <<>>,
               nav |-> "pending", err |-> "", response |-> <<>>, waited |-> 0,
               dlAt |-> "never", out |-> [type |-> "none"]]

\* mutant: a navigation error is thrown at once (the race of the earlier
\* handleRequest, src/unnamed/part_000 152-171)
GotoRejects_NoWait(err) ==
    /\ fn.f = "handleRequest" /\ fn.pc = "race"
    /\ fn' = [fn EXCEPT !.nav = "rejected", !.err = err, !.pc = "rejected",
                        !.out = [type |-> "error", message |-> err]]
    /\ UNCHANGED <<files, contextCache, contexts, rq, received, proc, sd>>

\* lines 160-165: the page emits 'download' (page.once: the first event
\* only).  It settles the race of line 170 or of line 178 the call is
\* waiting in, and line 187 returns the download; later it only sets the
\* variable.
DownloadEvent(d) ==
    /\ fn.f = "handleRequest" /\ fn.download = <<>>
    /\ fn' = [fn EXCEPT
                !.download = <<d>>,
                !.dlAt = CASE fn.pc = "race" -> "beforeNavigation"
                           [] fn.pc = "wait" -> "afterNavigationFailed"
                           [] fn.pc = "content" -> "afterNavigationDone"
                           [] OTHER -> "afterReturn",
                !.pc = IF fn.pc \in {"race", "wait"} THEN "returned" ELSE fn.pc,
                !.out = IF fn.pc \in {"race", "wait"}
                        THEN [type |-> "download", download |-> d] ELSE fn.out]
    /\ UNCHANGED <<files, contextCache, contexts, rq, received, proc, sd>>

\* lines 170-173 and 190-192: page.goto resolves first; no download is
\* set, and the content type and the content are read
GotoResolves(ct) ==
    /\ fn.f = "handleRequest" /\ fn.pc = "race"
    /\ fn' = [fn EXCEPT !.nav = "resolved", !.response = <<ct>>, !.pc = "content"]
    /\ UNCHANGED <<files, contextCache, contexts, rq, received, proc, sd>>

\* lines 174-184: page.goto rejects first; no download is set, and the
\* call waits for the download event or the timer
GotoRejects(err) ==
    /\ fn.f = "handleRequest" /\ fn.pc = "race"
    /\ fn' = [fn EXCEPT !.nav = "rejected", !.err = err, !.pc = "wait"]
    /\ UNCHANGED <<files, contextCache, contexts, rq, received, proc, sd>>

\* a second of the wait passes
TimerTick ==
    /\ fn.f = "handleRequest" /\ fn.pc = "wait"
    /\ fn.waited < WaitSeconds
    /\ fn' = [fn EXCEPT !.waited = fn.waited + 1]
    /\ UNCHANGED <<files, contextCache, contexts, rq, received, proc, sd>>

\* line 181: the timer rejects the race with the navigation's error, which
\* the catch block lets through
TimerFires ==
    /\ fn.f = "handleRequest" /\ fn.pc = "wait"
    /\ fn.waited = WaitSeconds
    /\ fn' = [fn EXCEPT !.pc = "rejected",
                        !.out = [type |-> "error", message |-> fn.err]]
    /\ UNCHANGED <<files, contextCache, contexts, rq, received, proc, sd>>

\* lines 190-192: headerValue and page.content() resolve
ContentResolves ==
    /\ fn.f = "handleRequest" /\ fn.pc = "content"
    /\ fn' = [fn EXCEPT !.pc = "returned",
                        !.out = [type |-> "page", body |-> fn.url,
                                 contentType |-> fn.response[1]]]
    /\ UNCHANGED <<files, contextCache, contexts, rq, received, proc, sd>>

\* page.content() rejects (the page was closed or is navigating)
ContentRejects ==
    /\ fn.f = "handleRequest" /\ fn.pc = "content"
    /\ fn' = [fn EXCEPT !.pc = "rejected",
                        !.out = [type |-> "error", message |-> "content failed"]]
    /\ UNCHANGED <<files, contextCache, contexts, rq, received, proc, sd>>

NextRace ==
    \/ \E d \in {"d1", "d2"} : DownloadEvent(d)
    \/ \E ct \in {CtHtmlUtf8, CtNone} : GotoResolves(ct)
    \/ \E err \in {"net::ERR_ABORTED", "Timeout 60000ms exceeded"} : GotoRejects(err)
    \/ TimerTick
    \/ TimerFires
    \/ ContentResolves
    \/ ContentRejects

SpecRace == InitRace /\ [][NextRace]_vars

(* ------------------------------------------------------------------ *)
(* The headers of streamed responses (serve.mjs 88-100, 208-216)        *)
(* ------------------------------------------------------------------ *)

StreamInputs ==
    {[method |-> "GET", parses |-> TRUE, pathname |-> "/v1",
      session |-> << <<"a">> >>, url |-> <<u>>] : u \in {UrlFile, UrlPlain, UrlDeep}}

\* terminal responses that are not HTML pages
StreamResponses ==
    {[status |-> st, contentType |-> ct, disposition |-> d, setCookie |-> <<>>] :
        st \in {200, 404}, ct \in {CtPdf, CtPlain, CtNone}, d \in BOOLEAN}

NextStream ==
    \/ \E r \in Slots, inp \in StreamInputs : Receive(r, inp)
    \/ \E r \in Slots : LoadDone(r)
    \/ \E r \in Slots, up \in StreamResponses : FetchResponse(r, up)
    \/ \E r \in Slots, loc \in StoreLocations : FetchRedirect(r, loc)

SpecStream == InitStore /\ [][NextStream]_vars

(* ------------------------------------------------------------------ *)
(* directFetch against an upstream that may redirect for ever           *)
(* (serve.mjs 174-200)                                                  *)
(* ------------------------------------------------------------------ *)

\* lines 189-194 as they are: every 3xx with a Location is followed, and
\* no count of the redirects is kept.  The model's counters saturate at
\* their bound, so that `redirects` reads "MaxRedirects or more".
FetchFollow(r, loc) ==
    /\ Running
    /\ rq[r].pc = "fetch"
    /\ loc.valid
    /\ rq' = [rq EXCEPT ![r] =
                [StartFetch([rq[r] EXCEPT !.redirSet = rq[r].redirSet \o loc.setCookie],
                            loc.url)
                   EXCEPT !.redirects = IF rq[r].redirects < MaxRedirects
                                        THEN rq[r].redirects + 1 ELSE MaxRedirects,
                          !.fetches = IF rq[r].fetches <= MaxRedirects
                                      THEN rq[r].fetches + 1 ELSE MaxRedirects + 1]]
    /\ UNCHANGED <<files, contextCache, contexts, received, proc, sd, fn>>

\* the two URLs redirect to each other, or answer
FetchLocations ==
    {[valid |-> TRUE, url |-> u, setCookie |-> <<>>] : u \in {UrlFile, UrlPlain}}

NextFetch ==
    \/ \E r \in Slots, inp \in StoreInputs : Receive(r, inp)
    \/ \E r \in Slots : LoadDone(r)
    \/ \E r \in Slots, up \in StoreResponses : FetchResponse(r, up)
    \/ \E r \in Slots, loc \in FetchLocations : FetchFollow(r, loc)
    \/ \E r \in Slots : FetchError(r)
    \/ \E r \in Slots : SaveOpen(r)
    \/ \E r \in Slots : SaveDone(r)
    \/ \E r \in Slots : SaveFail(r)

\* mod.get calls back with a response or emits 'error' (lines 181-199):
\* every request sent to the upstream is answered, one way or another
UpstreamAnswers(r) ==
    \/ \E up \in StoreResponses : FetchResponse(r, up)
    \/ \E loc \in FetchLocations : FetchFollow(r, loc)
    \/ FetchError(r)

SpecFetch ==
    /\ InitStore
    /\ [][NextFetch]_vars
    /\ \A r \in Slots : WF_vars(UpstreamAnswers(r))

(* ------------------------------------------------------------------ *)
(* buildCookieHeader applied on its own (session.mjs 72-106)            *)
(* ------------------------------------------------------------------ *)

\* all strings of at most n characters of an alphabet
Strings(alphabet, n) == UNION {[1..k -> alphabet] : k \in 0..n}

\* cookie domains: every string of dots and the labels e and c
MatchDomains == Strings({".", "e", "c"}, MaxDomainLen)

\* target hostnames: e.c, s.e.c, ne.c, c and the fully qualified e.c.
MatchHosts ==
    {HostEC, HostSEC, <<"n", "e", ".", "c">>, <<"c">>, <<"e", ".", "c", ".">>}

MatchUrls ==
    {[protocol |-> pr, hostname |-> h, pathname |-> <<"/", "f">>] :
        pr \in {"http:", "https:"}, h \in MatchHosts}

\* the cookie under test, beside CookieSid in the record
MatchCookies ==
    {[name |-> <<"k">>, value |-> <<"v">>, domain |-> d, path |-> pa, secure |-> se,
      httpOnly |-> FALSE, expires |-> ex, sameSite |-> NoValue] :
        d \in MatchDomains, pa \in {<<"/">>, <<"/", "x">>}, se \in BOOLEAN,
        ex \in {NoValue, <<-1>>, <<0>>, <<3>>, <<7>>}}

\* buildCookieHeader is called with a record of two cookies
InitMatch ==
    /\ files = [p \in SessionPaths |-> FileAbsent]
    /\ contextCache = <<>>
    /\ contexts = <<>>
    /\ rq = [r \in Slots |-> IdleRequest]
    /\ received = 0
    /\ proc = [listening |-> TRUE, browserOpen |-> TRUE, crashed |-> FALSE,
               exited |-> FALSE]
    /\ sd = NoShutdown
    /\ \E c \in MatchCookies, u \in MatchUrls, nowSec \in Times :
         fn = [f |-> "buildCookieHeader", pc |-> "called", cookie |-> c,
               state |-> [hasCookies |-> TRUE, cookies |-> <<CookieSid, c>>,
                          origins |-> <<>>],
               url |-> u, nowSec |-> nowSec, out |-> <<>>]

\* the call returns the header
BuildCookieHeaderReturns ==
    /\ fn.f = "buildCookieHeader" /\ fn.pc = "called"
    /\ fn' = [fn EXCEPT !.pc = "returned",
                        !.out = buildCookieHeader(fn.state, fn.url, fn.nowSec).header]
    /\ UNCHANGED <<files, contextCache, contexts, rq, received, proc, sd>>

SpecMatch == InitMatch /\ [][BuildCookieHeaderReturns]_vars

(* ------------------------------------------------------------------ *)
(* One Set-Cookie directive merged into a record on its own             *)
(* (serve.mjs 233-272), for a target URL on host e.c                     *)
(* ------------------------------------------------------------------ *)

\* the cookies a record holds before the merge
MergeCookies ==
    {[name |-> n, value |-> <<"0">>, domain |-> d, path |-> pa, secure |-> FALSE,
      httpOnly |-> FALSE, expires |-> NoValue, sameSite |-> NoValue] :
        n \in {<<"k">>, <<"j">>}, d \in {HostEC, <<".">> \o HostEC},
        pa \in {<<"/">>, <<"/", "x">>}}

\* the records: without a cookies key, or with up to MaxCookies cookies
MergeRecords ==
    {RecBare} \cup
    {[hasCookies |-> TRUE, cookies |-> cs, origins |-> <<"o">>] :
        cs \in UNION {[1..n -> MergeCookies] : n \in 0..MaxCookies}}

\* Set-Cookie directives, each with the name, value, domain and path it
\* sets for a response of host e.c; the last one has no name=value pair
MergeDirectives ==
    {[raw |-> <<"k", "=", "1">>,
      cookie |-> TRUE, name |-> <<"k">>, value |-> <<"1">>, domain |-> <<"e", ".", "c">>, path |-> <<"/">>],
     [raw |-> <<"k", "=", "1", ";", " ", "P", "a", "t", "h", "=", "/", "x">>,
      cookie |-> TRUE, name |-> <<"k">>, value |-> <<"1">>, domain |-> <<"e", ".", "c">>, path |-> <<"/", "x">>],
     [raw |-> <<"k", "=", "1", ";", " ", "D", "o", "m", "a", "i", "n", "=", ".", "e", ".", "c">>,
      cookie |-> TRUE, name |-> <<"k">>, value |-> <<"1">>, domain |-> <<".", "e", ".", "c">>, path |-> <<"/">>],
     [raw |-> <<"k", "=", "1", ";", " ", "d", "o", "m", "a", "i", "n", "=", ".", "e", ".", "c", ";", " ", "P", "A", "T", "H", "=", "/", "x", ";", " ", "S", "e", "c", "u", "r", "e">>,
      cookie |-> TRUE, name |-> <<"k">>, value |-> <<"1">>, domain |-> <<".", "e", ".", "c">>, path |-> <<"/", "x">>],
     [raw |-> <<"j", "=", "1", ";", "P", "a", "t", "h", "=", "/">>,
      cookie |-> TRUE, name |-> <<"j">>, value |-> <<"1">>, domain |-> <<"e", ".", "c">>, path |-> <<"/">>],
     [raw |-> <<"k", "=", ";", " ", "H", "t", "t", "p", "O", "n", "l", "y">>,
      cookie |-> TRUE, name |-> <<"k">>, value |-> <<>>, domain |-> <<"e", ".", "c">>, path |-> <<"/">>],
     [raw |-> <<"b", "a", "d", ";", " ", "P", "a", "t", "h", "=", "/">>,
      cookie |-> FALSE, name |-> <<>>, value |-> <<>>, domain |-> <<>>, path |-> <<>>]}

InitMerge ==
    /\ files = [p \in SessionPaths |-> FileAbsent]
    /\ contextCache = <<>>
    /\ contexts = <<>>
    /\ rq = [r \in Slots |-> IdleRequest]
    /\ received = 0
    /\ proc = [listening |-> TRUE, browserOpen |-> TRUE, crashed |-> FALSE,
               exited |-> FALSE]
    /\ sd = NoShutdown
    /\ \E rec \in MergeRecords, d \in MergeDirectives :
         fn = [f |-> "merge", pc |-> "called", state |-> rec, directive |-> d,
               url |-> UrlFile, out |-> rec]

\* one iteration of the loop of updateSessionCookies has run
MergeReturns ==
    /\ fn.f = "merge" /\ fn.pc = "called"
    /\ fn' = [fn EXCEPT !.pc = "returned",
                        !.out = MergeOne(fn.state, fn.directive.raw, fn.url)]
    /\ UNCHANGED <<files, contextCache, contexts, rq, received, proc, sd>>

SpecMerge == InitMerge /\ [][MergeReturns]_vars

(* ------------------------------------------------------------------ *)
(* The whole loop of updateSessionCookies over the Set-Cookie headers   *)
(* of one response (serve.mjs 227-272)                                  *)
(* ------------------------------------------------------------------ *)

\* upstreamRes.headers['set-cookie']: up to MaxBatch directives
InitBatch ==
    /\ files = [p \in SessionPaths |-> FileAbsent]
    /\ contextCache = <<>>
    /\ contexts = <<>>
    /\ rq = [r \in Slots |-> IdleRequest]
    /\ received = 0
    /\ proc = [listening |-> TRUE, browserOpen |-> TRUE, crashed |-> FALSE,
               exited |-> FALSE]
    /\ sd = NoShutdown
    /\ \E rec \in MergeRecords,
          ds \in UNION {[1..n -> MergeDirectives] : n \in 1..MaxBatch} :
         fn = [f |-> "updateSessionCookies", pc |-> "called", state |-> rec,
               directives |-> ds, url |-> UrlFile, out |-> rec]

\* the loop has run over all the headers: the state as saveSession gets it
UpdateSessionCookiesReturns ==
    /\ fn.f = "updateSessionCookies" /\ fn.pc = "called"
    /\ fn' = [fn EXCEPT !.pc = "returned",
                        !.out = MergeSetCookies(fn.state,
                                    [k \in 1..Len(fn.directives) |-> fn.directives[k].raw],
                                    fn.url)]
    /\ UNCHANGED <<files, contextCache, contexts, rq, received, proc, sd>>

SpecBatch == InitBatch /\ [][UpdateSessionCookiesReturns]_vars

(* ------------------------------------------------------------------ *)
(* resolveSessionPath applied on its own (session.mjs 15-27)            *)
(* ------------------------------------------------------------------ *)

\* the segments of a path between its slashes
Segments(p) == Split(p, "/")

\* session names and paths: strings of a, "." and "/" that name a file:
\* no empty segment but a leading one, no "." or ".." segment
ResolveInputs ==
    {p \in Strings({"a", ".", "/"}, MaxNameLen) :
        /\ p # <<>>
        /\ \A k \in 1..Len(Segments(p)) :
             /\ Segments(p)[k] = <<>> => (k = 1 /\ Len(Segments(p)) > 1)
             /\ Segments(p)[k] \notin {<<".">>, <<".", ".">>}}

InitResolve ==
    /\ files = [p \in SessionPaths |-> FileAbsent]
    /\ contextCache = <<>>
    /\ contexts = <<>>
    /\ rq = [r \in Slots |-> IdleRequest]
    /\ received = 0
    /\ proc = [listening |-> TRUE, browserOpen |-> TRUE, crashed |-> FALSE,
               exited |-> FALSE]
    /\ sd = NoShutdown
    /\ \E p \in ResolveInputs :
         fn = [f |-> "resolveSessionPath", pc |-> "called", nameOrPath |-> p,
               out |-> <<>>]

ResolveReturns ==
    /\ fn.f = "resolveSessionPath" /\ fn.pc = "called"
    /\ fn' = [fn EXCEPT !.pc = "returned",
                        !.out = resolveSessionPath(fn.nameOrPath, SessionsDir)]
    /\ UNCHANGED <<files, contextCache, contexts, rq, received, proc, sd>>

SpecResolve == InitResolve /\ [][ResolveReturns]_vars

\* the requests in flight around a shutdown: renders for the two sessions
ShutdownInputs ==
    {[method |-> "GET", parses |-> TRUE, pathname |-> "/v1", session |-> <<n>>,
      url |-> <<UrlFile>>] : n \in SessionNames}

ShutdownResponses == {up \in UpstreamResponses : isHtmlPage(up.contentType)}

\* the server has been running: the session files are there, and the
\* cache is empty or holds the context of an earlier render for session a
InitShutdown ==
    /\ files = [p \in SessionPaths |-> FileOf(RecInit)]
    /\ \E cached \in BOOLEAN :
         /\ contexts = IF cached
                       THEN <<[path |-> resolveSessionPath(<<"a">>, SessionsDir),
                               closed |-> FALSE, state |-> RecInit]>>
                       ELSE <<>>
         /\ contextCache = IF cached
                           THEN << <<resolveSessionPath(<<"a">>, SessionsDir), 1>> >>
                           ELSE <<>>
    /\ rq = [r \in Slots |-> IdleRequest]
    /\ received = 0
    /\ proc = [listening |-> TRUE, browserOpen |-> TRUE, crashed |-> FALSE,
               exited |-> FALSE]
    /\ sd = NoShutdown
    /\ fn = NoCall

NextShutdown ==
    \/ \E r \in Slots, inp \in ShutdownInputs : Receive(r, inp)
    \/ \E r \in Slots : LoadDone(r)
    \/ \E r \in Slots, up \in ShutdownResponses : FetchResponse(r, up)
    \/ \E r \in Slots : FetchError(r)
    \/ \E r \in Slots : CtxLoadDone(r)
    \/ \E r \in Slots : CtxCreateDone(r)
    \/ \E r \in Slots : CtxCreateFail(r)
    \/ \E r \in Slots : NewPageDone(r)
    \/ \E r \in Slots : NewPageFail(r)
    \/ \E r \in Slots : GotoDone(r)
    \/ \E r \in Slots : GotoFail(r)
    \/ \E r \in Slots : ContentDone(r)
    \/ \E r \in Slots : ContentFail(r)
    \/ \E r \in Slots : PersistDone(r)
    \/ \E r \in Slots : PersistFail(r)
    \/ \E r \in Slots : CloseDone(r)
    \/ \E r \in Slots : CloseFail(r)
    \/ Signal
    \/ \E i \in 1..MaxSignals : SdPersistDone(i)
    \/ \E i \in 1..MaxSignals : SdPersistFail(i)
    \/ \E i \in 1..MaxSignals : SdCloseDone(i)
    \/ \E i \in 1..MaxSignals : SdCloseFail(i)
    \/ \E i \in 1..MaxSignals : SdBrowserClosed(i)
    \/ \E i \in 1..MaxSignals : SdBrowserCloseFail(i)

SpecShutdown == InitShutdown /\ [][NextShutdown]_vars

(* ------------------------------------------------------------------ *)
(* Requests of both paths on a server that has rendered before: the     *)
(* cache may hold the context of session a (serve.mjs 42-135)           *)
(* ------------------------------------------------------------------ *)

SpecSurvive == InitShutdown /\ [][Next]_vars

(* ------------------------------------------------------------------ *)
(* Repeated signals: renders for session a, and one signal more than    *)
(* MaxSignals (serve.mjs 143-159)                                       *)
(* ------------------------------------------------------------------ *)

NextSignals ==
    \/ \E r \in Slots, inp \in StoreInputs : Receive(r, inp)
    \/ \E r \in Slots : LoadDone(r)
    \/ \E r \in Slots, up \in ShutdownResponses : FetchResponse(r, up)
    \/ \E r \in Slots : CtxLoadDone(r)
    \/ \E r \in Slots : CtxCreateDone(r)
    \/ \E r \in Slots : NewPageDone(r)
    \/ \E r \in Slots : GotoDone(r)
    \/ \E r \in Slots : ContentDone(r)
    \/ \E r \in Slots : PersistDone(r)
    \/ \E r \in Slots : CloseDone(r)
    \/ Deliver(MaxSignals + 1)
    \/ \E i \in 1..(MaxSignals + 1) : SdPersistDone(i)
    \/ \E i \in 1..(MaxSignals + 1) : SdPersistFail(i)
    \/ \E i \in 1..(MaxSignals + 1) : SdCloseDone(i)
    \/ \E i \in 1..(MaxSignals + 1) : SdCloseFail(i)
    \/ \E i \in 1..(MaxSignals + 1) : SdBrowserClosed(i)
    \/ \E i \in 1..(MaxSignals + 1) : SdBrowserCloseFail(i)

SpecSignals == InitShutdown /\ [][NextSignals]_vars

(* ------------------------------------------------------------------ *)
(* Properties                                                           *)
(* ------------------------------------------------------------------ *)

\* the handles of the contexts created for a session path and not closed
LiveContexts(path) ==
    {i \in 1..Len(contexts) : contexts[i].path = path /\ ~contexts[i].closed}

\* a Content-Type that names text/html
HtmlType(ct) == Includes(ct, TextHtml)

\* slot r holds a request whose direct fetch ended with a terminal response
GotTerminal(r) == rq[r].term # <<>>

\* C1: for every session path at most one context created for it exists,
\* and all requests for one session path hold the same context handle,
\* also when their getContext calls overlap.
C1_OneContextPerPath ==
    /\ \A p \in SessionPaths : Cardinality(LiveContexts(p)) <= 1
    /\ \A r1, r2 \in Slots :
         (/\ rq[r1].ctx # 0 /\ rq[r2].ctx # 0
          /\ rq[r1].sessionPath = rq[r2].sessionPath)
         => rq[r1].ctx = rq[r2].ctx

\* one step keeps every cache entry, and a getContext on a cached path
\* returns the cached handle without a load or a createContext
C2_Step ==
    /\ \A p \in SessionPaths :
         CacheHas(contextCache, p)
         => /\ CacheHas(contextCache', p)
            /\ CacheGet(contextCache', p) = CacheGet(contextCache, p)
    /\ \A r \in Slots :
         (/\ rq[r].pc = "fetch" /\ rq'[r].pc \in {"newPage", "ctxLoad"}
          /\ CacheHas(contextCache, rq[r].sessionPath))
         => /\ rq'[r].pc = "newPage"
            /\ rq'[r].ctx = CacheGet(contextCache, rq[r].sessionPath)
            /\ rq'[r].loads = rq[r].loads
            /\ contexts' = contexts

\* C2: once a context is cached for a session path, the entry is never
\* removed or replaced, and every later getContext for that path returns
\* that handle without loading the session file or creating a context.
C2_NoEviction == [][C2_Step]_vars

\* the part of C2 that the code keeps: a getContext that starts when the
\* path is cached returns the cached handle, loads and creates nothing,
\* and no entry is ever removed
C2_HitReturnsCached ==
    [][/\ \A p \in SessionPaths : CacheHas(contextCache, p) => CacheHas(contextCache', p)
       /\ \A r \in Slots :
            (/\ rq[r].pc = "fetch" /\ rq'[r].pc \in {"newPage", "ctxLoad"}
             /\ CacheHas(contextCache, rq[r].sessionPath))
            => /\ rq'[r].pc = "newPage"
               /\ rq'[r].ctx = CacheGet(contextCache, rq[r].sessionPath)
               /\ rq'[r].loads = rq[r].loads
               /\ contexts' = contexts]_vars

\* a non-HTML request is answered with the upstream response and holds
\* no context and no page
C3_State ==
    \A r \in Slots :
        (GotTerminal(r) /\ ~HtmlType(rq[r].term[1].contentType))
        => /\ rq[r].pc \in {"save", "write", "done"}
           /\ rq[r].resp.heads = 1
           /\ rq[r].resp.status = rq[r].term[1].status
           /\ rq[r].resp.ctype = rq[r].term[1].contentType
           /\ rq[r].term[1].disposition => (rq[r].resp.dispo.kind = "upstream")
           /\ rq[r].resp.body.kind = "upstream"
           /\ rq[r].upstream = "piped"
           /\ rq[r].ctx = 0 /\ rq[r].page = "none" /\ rq[r].nav = "none"

\* the steps of a non-HTML request leave the cache and the contexts alone
C3_Step ==
    \A r \in Slots :
        (/\ rq'[r] # rq[r]
         /\ rq'[r].term # <<>>
         /\ ~HtmlType(rq'[r].term[1].contentType))
        => /\ contextCache' = contextCache
           /\ contexts' = contexts

\* C3: a request whose terminal direct-fetch response is not HTML gets the
\* upstream status, headers and body, never obtains a context or a page,
\* and its steps leave the context cache and the contexts unchanged.
C3_DirectStreamNoBrowser == []C3_State /\ [][C3_Step]_vars

\* a non-HTML response was streamed while a context is cached
C3_Witness ==
    \E r \in Slots :
        /\ rq[r].pc = "done" /\ GotTerminal(r)
        /\ rq[r].term[1].contentType = CtPdf
        /\ rq[r].resp.status = 200 /\ rq[r].resp.body.kind = "upstream"
        /\ contextCache # <<>>

\* C4: for a request whose terminal direct-fetch response is HTML the
\* direct response is destroyed and none of its body is forwarded; the
\* body of the 200 is the content captured from a page opened in the
\* context getContext returned for the session path, after navigating to
\* the target URL (a failed render is answered by the catch block, C9).
C4_RenderForHtml ==
    \A r \in Slots :
        (GotTerminal(r) /\ HtmlType(rq[r].term[1].contentType))
        => /\ rq[r].upstream = "destroyed"
           /\ rq[r].resp.body.kind \in {"none", "rendered", "json"}
           /\ (rq[r].resp.body.kind = "json") => (rq[r].resp.status = 500)
           /\ (rq[r].resp.heads > 0 /\ rq[r].resp.status # 500)
              => /\ rq[r].resp.status = 200
                 /\ rq[r].ctx \in 1..Len(contexts)
                 /\ contexts[rq[r].ctx].path = rq[r].sessionPath
                 /\ rq[r].page \in {"open", "closed"}
                 /\ rq[r].nav = "ok"
                 /\ rq[r].resp.body = [kind |-> "rendered", msg |-> "",
                                       ctx |-> rq[r].ctx, url |-> rq[r].req.url[1]]

\* an HTML response was answered with the rendered document
C4_Witness ==
    \E r \in Slots :
        /\ rq[r].pc = "done" /\ GotTerminal(r)
        /\ rq[r].term[1].contentType = CtHtmlUtf8
        /\ rq[r].resp.status = 200 /\ rq[r].resp.body.kind = "rendered"
        /\ rq[r].upstream = "destroyed"

\* a request ParseRequest has to reject
RejectedAtParse(q) ==
    /\ q.pc # "idle" /\ q.req.parses
    /\ \/ q.req.pathname # "/v1"
       \/ q.req.session = NoParam
       \/ q.req.url = NoParam

\* the rejected request is answered 404 or 400 and did nothing else
C5_State ==
    \A r \in Slots :
        RejectedAtParse(rq[r])
        => /\ rq[r].pc = "done"
           /\ rq[r].resp.heads = 1
           /\ rq[r].resp.ctype = CtJson
           /\ rq[r].resp.body.kind = "json"
           /\ (rq[r].req.pathname # "/v1") => (rq[r].resp.status = 404)
           /\ (rq[r].req.pathname = "/v1")
              => /\ rq[r].resp.status = 400
                 /\ rq[r].resp.body.msg = "Missing required query parameters: session, url"
           /\ rq[r].loads = 0 /\ rq[r].fetches = 0
           /\ rq[r].ctx = 0 /\ rq[r].page = "none" /\ rq[r].upstream = "none"

\* the step that rejects a request writes no file and leaves the cache
C5_Step ==
    \A r \in Slots :
        (rq'[r] # rq[r] /\ RejectedAtParse(rq'[r]))
        => /\ files' = files
           /\ contextCache' = contextCache
           /\ contexts' = contexts

C6_OnlyGet ==
    \A r \in Slots :
        (rq[r].pc # "idle" /\ rq[r].req.method # "GET")
        => /\ rq[r].pc = "done"
           /\ rq[r].loads = 0 /\ rq[r].fetches = 0
           /\ rq[r].ctx = 0 /\ rq[r].page = "none"

\* C7: every page a render request opened is closed when its handling
\* ends, whatever failed; the context that owned the page is still the
\* cache entry of the session path and is not closed.
C7_PageReleased ==
    \A r \in Slots :
        (rq[r].pc = "done" /\ rq[r].page # "none")
        => /\ rq[r].page = "closed"
           /\ CacheHas(contextCache, rq[r].sessionPath)
           /\ CacheGet(contextCache, rq[r].sessionPath) = rq[r].ctx
           /\ ~contexts[rq[r].ctx].closed

\* the part of C7 that the code keeps: the page is closed when the
\* handler ends and the context that owned it is not closed
C7_PageClosedAtEnd ==
    \A r \in Slots :
        (rq[r].pc = "done" /\ rq[r].page # "none")
        => /\ rq[r].page = "closed"
           /\ ~contexts[rq[r].ctx].closed

\* C8: when persisting the session state fails after a successful fetch
\* or capture, the client still gets the successful response: the
\* upstream status and streamed body, or the 200 with the rendered
\* document.
C8_BestEffortPersist ==
    \A r \in Slots :
        (rq[r].pc = "done" /\ rq[r].caught = "EACCES")
        => /\ rq[r].resp.heads = 1
           /\ rq[r].resp.status # 500
           /\ rq[r].resp.body.kind \in {"upstream", "rendered"}

\* the DirectStream half of C8, which the code keeps
C8_DirectPersistBestEffort ==
    \A r \in Slots :
        (rq[r].pc = "done" /\ rq[r].caught = "EACCES" /\ rq[r].upstream = "piped")
        => /\ rq[r].resp.heads = 1
           /\ rq[r].resp.status = rq[r].term[1].status
           /\ rq[r].resp.body.kind = "upstream"

\* the failures C9 names, each raised before any response head is written
EarlyFailures ==
    {"Invalid URL", "ENOENT", "SyntaxError", "ECONNREFUSED", "createContext failed",
     "newPage failed", "Timeout 60000ms exceeded", "content failed"}

\* C9: a failure raised before the response head is written ends in
\* exactly one 500 whose JSON body carries the failure's message, and no
\* failure escapes the per-request handler.
C9_FailureYields500 ==
    /\ ~proc.crashed
    /\ \A r \in Slots :
         (rq[r].pc = "done" /\ rq[r].caught \in EarlyFailures)
         => /\ rq[r].resp.heads = 1
            /\ rq[r].resp.status = 500
            /\ rq[r].resp.ctype = CtJson
            /\ rq[r].resp.body = JsonError(rq[r].caught)

\* the part of C9 that the code keeps: what the catch block receives
\* before a head was written is answered with exactly one 500
C9_CaughtYields500 ==
    \A r \in Slots :
        (rq[r].pc = "done" /\ rq[r].caught \in EarlyFailures)
        => /\ rq[r].resp.heads = 1
           /\ rq[r].resp.status = 500
           /\ rq[r].resp.ctype = CtJson
           /\ rq[r].resp.body = JsonError(rq[r].caught)

\* C10: when the session file does not exist the direct fetch is still
\* performed, with no Cookie header, and only the Render path fails: a
\* request that failed on the absent file has fetched and got HTML.
C10_MissingSessionDegrades ==
    \A r \in Slots :
        (rq[r].pc = "done" /\ rq[r].caught = "ENOENT")
        => /\ rq[r].fetches > 0
           /\ GotTerminal(r)
           /\ HtmlType(rq[r].term[1].contentType)

(* ------------------------------------------------------------------ *)
(* Properties of the shutdown                                           *)
(* ------------------------------------------------------------------ *)

\* C11: when shutdown is triggered with contexts in the cache, once the
\* shared browser is closed a persistence attempt has been made for each
\* context that was cached, whatever failed for the others.
C11_PersistAttemptForEach ==
    ~proc.browserOpen => sd.cachedAtSignal \subseteq sd.persistTried

\* the part of C11 that the code keeps: every context that was cached at
\* the signal and is still the cache's entry for its path has had its
\* persistence attempt when the browser is closed
C11_PersistAttemptForCurrent ==
    ~proc.browserOpen =>
        (sd.cachedAtSignal \cap {contextCache[k][2] : k \in 1..Len(contextCache)})
            \subseteq sd.persistTried

\* a run of `shutdown` is past its loop over the cache
PastLoop(run) == run.pc \in {"browserClose", "exit", "rejected"}

\* C12: shutdown first stops the server accepting connections; when its
\* loop is over, both a persist and a close have been attempted for every
\* cached context; the browser is closed only when no per-context attempt
\* of the shutdown is still running, and the process exits only after
\* the browser is closed.
C12_ShutdownSequence ==
    /\ sd.runs # <<>> => ~proc.listening
    /\ \A i \in 1..Len(sd.runs) :
         PastLoop(sd.runs[i])
         => sd.cachedAtSignal \subseteq (sd.persistTried \cap sd.closeTried)
    /\ ~proc.browserOpen => \A i \in 1..Len(sd.runs) : PastLoop(sd.runs[i])
    /\ proc.exited => ~proc.browserOpen

\* the part of C12 that the code keeps: the order of the steps, and a
\* persistence attempt for every context still in the cache
C12_OrderKept ==
    /\ sd.runs # <<>> => ~proc.listening
    /\ \A i \in 1..Len(sd.runs) :
         PastLoop(sd.runs[i]) => sd.cachedAtSignal \subseteq
             (sd.persistTried \cup
              {c \in sd.cachedAtSignal : \A k \in 1..Len(contextCache) :
                                            contextCache[k][2] # c})
    /\ ~proc.browserOpen => \A i \in 1..Len(sd.runs) : PastLoop(sd.runs[i])
    /\ proc.exited => ~proc.browserOpen

(* ------------------------------------------------------------------ *)
(* Properties of the session store                                      *)
(* ------------------------------------------------------------------ *)

\* slot r completes a loadSession in this step (the handler's, or the
\* one of getContext)
Loads(r) ==
    /\ rq[r].pc \in {"load", "ctxLoad"}
    /\ rq'[r].loads = rq[r].loads + 1

\* C13: a loadSession never reads a session file that a saveSession in
\* progress has truncated or partly overwritten: what it reads is a
\* complete record, the previous one or the new one.
C13_LoadSeesCompleteRecord ==
    [][\A r \in Slots :
          Loads(r) => files[rq[r].sessionPath].kind \notin {"empty", "torn"}]_vars

\* slot r's handler returns in this step without having reached its
\* catch, after a terminal response of the upstream
Completes(r) ==
    /\ rq[r].pc # "done" /\ rq'[r].pc = "done"
    /\ rq'[r].caught = ""
    /\ rq'[r].term # <<>>

\* the cookie a Set-Cookie directive names is in the record
Absorbed(rec, raw) ==
    \/ IndexOf(Head(DirectiveParts(raw)), "=") = 0
    \/ \E k \in 1..Len(rec.cookies) :
          rec.cookies[k].name =
              SubSeq(Head(DirectiveParts(raw)), 1,
                     IndexOf(Head(DirectiveParts(raw)), "=") - 1)

\* C14: when a request completes successfully, the cookies of every
\* Set-Cookie directive an upstream response carried during the request
\* (the 3xx responses it followed and its terminal response) are in the
\* session record on disk.
C14_SetCookieAbsorbed ==
    [][\A r \in Slots :
          Completes(r)
          => /\ files'[rq'[r].sessionPath].kind = "json"
             /\ \A k \in 1..Len(rq'[r].redirSet \o rq'[r].term[1].setCookie) :
                   Absorbed(files'[rq'[r].sessionPath].rec,
                            (rq'[r].redirSet \o rq'[r].term[1].setCookie)[k])]_vars

(* ------------------------------------------------------------------ *)
(* Properties of buildCookieHeader                                      *)
(* ------------------------------------------------------------------ *)

\* buildCookieHeader has returned
Returned == fn.f = "buildCookieHeader" /\ fn.pc = "returned"

\* the cookie under test is in the header
InHeader == \E k \in 1..Len(fn.out) : fn.out[k] = <<fn.cookie.name, fn.cookie.value>>

\* the domain rule as the specification words it: with a leading dot put
\* before the hostname and before a cookie domain that has none, the
\* hostname equals the cookie domain or ends with it, the ending starting
\* at a dot of the hostname (a label boundary)
DomainRule(domain, hostname) ==
    LET cd == IF domain # <<>> /\ domain[1] = "." THEN domain ELSE <<".">> \o domain
        hd == <<".">> \o hostname
    IN \/ hd = cd
       \/ \E k \in 1..Len(hd) : hd[k] = "." /\ SubSeq(hd, k, Len(hd)) = cd

PathRule(c, url) == c.path = <<>> \/ StartsWith(url.pathname, c.path)
SecureRule(c, url) == ~c.secure \/ url.protocol = "https:"
ExpiryRule(c, nowSec) ==
    c.expires = NoValue \/ c.expires[1] <= 0 \/ c.expires[1] >= nowSec

\* C15: a cookie passes the domain rule of buildCookieHeader exactly
\* when the dot-prefixed hostname equals the dot-normalized cookie domain
\* or ends with it on a label boundary: a cookie failing it is never in
\* the header, and one passing it and the other rules is.
C15_DomainSuffixMatch ==
    Returned =>
        /\ InHeader => DomainRule(fn.cookie.domain, fn.url.hostname)
        /\ (/\ DomainRule(fn.cookie.domain, fn.url.hostname)
            /\ PathRule(fn.cookie, fn.url) /\ SecureRule(fn.cookie, fn.url)
            /\ ExpiryRule(fn.cookie, fn.nowSec)) => InHeader
        /\ (fn.cookie.domain = <<".">> \o HostEC /\ fn.url.hostname = <<"n", "e", ".", "c">>)
           => ~InHeader

\* domain .e.c was matched against s.e.c and the cookie is in the header
C15_Witness ==
    /\ Returned /\ InHeader
    /\ fn.cookie.domain = <<".">> \o HostEC
    /\ fn.url.hostname = HostSEC

\* C16: a cookie with secure = true is never in the header built for an
\* http: target, and for an https: target the secure flag excludes no
\* cookie: one passing the other rules is in the header.
C16_SecureOnlyOnHttps ==
    Returned =>
        /\ (fn.cookie.secure /\ fn.url.protocol = "http:") => ~InHeader
        /\ (/\ fn.url.protocol = "https:"
            /\ DomainRule(fn.cookie.domain, fn.url.hostname)
            /\ PathRule(fn.cookie, fn.url)
            /\ ExpiryRule(fn.cookie, fn.nowSec)) => InHeader

\* a secure cookie that passes every other rule was left out for http:
C16_Witness ==
    /\ Returned /\ ~InHeader
    /\ fn.cookie.secure /\ fn.url.protocol = "http:"
    /\ DomainRule(fn.cookie.domain, fn.url.hostname)
    /\ PathRule(fn.cookie, fn.url)
    /\ ExpiryRule(fn.cookie, fn.nowSec)

\* C17 as stated: a cookie whose expires is less than the current time
\* is never in the header, and a cookie without expires that passes the
\* other rules is in the header.
C17_ExpiredExcluded ==
    Returned =>
        /\ (fn.cookie.expires # NoValue /\ fn.cookie.expires[1] < fn.nowSec)
           => ~InHeader
        /\ (/\ fn.cookie.expires = NoValue
            /\ DomainRule(fn.cookie.domain, fn.url.hostname)
            /\ PathRule(fn.cookie, fn.url)
            /\ SecureRule(fn.cookie, fn.url)) => InHeader

\* C17 amended: a cookie whose expires is positive and less than the
\* current time is never in the header; a cookie without expires, or
\* with an expires of zero or less (the session-cookie mark -1 of a
\* storage state), that passes the other rules is in the header.
C17_PositiveExpiredExcluded ==
    Returned =>
        /\ (/\ fn.cookie.expires # NoValue
            /\ fn.cookie.expires[1] > 0
            /\ fn.cookie.expires[1] < fn.nowSec) => ~InHeader
        /\ (/\ (fn.cookie.expires = NoValue \/ fn.cookie.expires[1] <= 0)
            /\ DomainRule(fn.cookie.domain, fn.url.hostname)
            /\ PathRule(fn.cookie, fn.url)
            /\ SecureRule(fn.cookie, fn.url)) => InHeader

\* a cookie with expires -1 is in the header built at time 5
C17_Witness ==
    /\ Returned /\ InHeader
    /\ fn.cookie.expires = <<-1>>
    /\ fn.nowSec = 5

(* ------------------------------------------------------------------ *)
(* Properties of the cookie merge                                       *)
(* ------------------------------------------------------------------ *)

\* the positions of the cookies with the directive's name, domain and path
SameKey(cookies, d) ==
    {i \in 1..Len(cookies) : /\ cookies[i].name = d.name
                             /\ cookies[i].domain = d.domain
                             /\ cookies[i].path = d.path}

\* the positions of the cookies that differ from the directive in path only
OtherPath(cookies, d) ==
    {i \in 1..Len(cookies) : /\ cookies[i].name = d.name
                             /\ cookies[i].domain = d.domain
                             /\ cookies[i].path # d.path}

\* cookie c is the one directive d sets
IsCookieOf(c, d) ==
    c.name = d.name /\ c.value = d.value /\ c.domain = d.domain /\ c.path = d.path

\* the merge of a directive with a name=value pair has returned
Merged == fn.f = "merge" /\ fn.pc = "returned" /\ fn.directive.cookie

C18_ReplacedInPlace ==
    /\ Merged
    /\ Len(fn.state.cookies) = 2
    /\ SameKey(fn.state.cookies, fn.directive) = {2}
    /\ fn.out.cookies[2].value # fn.state.cookies[2].value
    /\ fn.out.cookies[1] = fn.state.cookies[1]

(* ------------------------------------------------------------------ *)
(* Properties of resolveSessionPath                                     *)
(* ------------------------------------------------------------------ *)

\* resolveSessionPath has returned
Resolved == fn.f = "resolveSessionPath" /\ fn.pc = "returned"

\* the file name of a path has an extension: a dot after its first
\* character
HasExtension(p) ==
    \E k \in 2..Len(LastSegment(p, "/")) : LastSegment(p, "/")[k] = "."

\* a name with .json appended unless it has an extension
WithExtension(p) == IF HasExtension(p) THEN p ELSE p \o DotJson

\* C19: resolveSessionPath returns an absolute path unchanged; a relative
\* path or bare name is joined under sessionsDir, with .json appended
\* only if the name has no file extension.
C19_ResolveSessionPath ==
    Resolved =>
        IF fn.nameOrPath[1] = "/"
        THEN fn.out = fn.nameOrPath
        ELSE fn.out = SessionsDir \o <<"/">> \o WithExtension(fn.nameOrPath)

\* the part of C19 that the code keeps: .json is appended to every name
\* or path without an extension, absolute or not, and what is not
\* absolute is joined under sessionsDir
C19_ExtensionThenJoin ==
    Resolved =>
        IF fn.nameOrPath[1] = "/"
        THEN fn.out = WithExtension(fn.nameOrPath)
        ELSE fn.out = SessionsDir \o <<"/">> \o WithExtension(fn.nameOrPath)

(* ------------------------------------------------------------------ *)
(* Properties of concurrent direct requests for one session             *)
(* ------------------------------------------------------------------ *)

\* slot r's saveSession resolves in this step
SaveCompletes(r) == rq[r].pc = "write" /\ rq'[r].pc = "done"

\* C20: concurrent direct requests for one session save their merged
\* copies without locking, and after every save that completes the file
\* holds the record of that save: the last save to complete wins.
C20_LastWriteWins ==
    [][\A r \in Slots :
          SaveCompletes(r) => files'[rq[r].sessionPath] = FileOf(rq[r].state)]_vars

\* the record has a cookie of this name
HasCookie(rec, name) == \E k \in 1..Len(rec.cookies) : rec.cookies[k].name = name

\* both requests for session a completed, one merged cookie t and the
\* other cookie u, and the record on disk holds only one of the two
C20_LostCookie ==
    /\ \A r \in Slots : rq[r].pc = "done" /\ rq[r].caught = "" /\ rq[r].term # <<>>
    /\ {rq[r].term[1].setCookie : r \in Slots} = {<<RawSetT>>, <<RawSetU>>}
    /\ \A r \in Slots : rq[r].redirSet = <<>>
    /\ files[resolveSessionPath(<<"a">>, SessionsDir)].kind = "json"
    /\ HasCookie(files[resolveSessionPath(<<"a">>, SessionsDir)].rec, <<"t">>)
       # HasCookie(files[resolveSessionPath(<<"a">>, SessionsDir)].rec, <<"u">>)

\* both requests completed as above and the file is neither record: the
\* text of the shorter one followed by the tail of the longer one
C20_TornFile ==
    /\ \A r \in Slots : rq[r].pc = "done" /\ rq[r].caught = "" /\ rq[r].term # <<>>
    /\ {rq[r].term[1].setCookie : r \in Slots} = {<<RawSetT>>, <<RawSetU>>}
    /\ files[resolveSessionPath(<<"a">>, SessionsDir)].kind = "torn"

(* ------------------------------------------------------------------ *)
(* Properties of the responses                                          *)
(* ------------------------------------------------------------------ *)

\* slot r's handler reaches its catch block in this step, after the
\* response head was written
FailsAfterHead(r) ==
    /\ rq[r].pc \notin {"idle", "done"}
    /\ rq[r].caught = "" /\ rq'[r].caught # ""
    /\ rq[r].resp.heads > 0

\* C21: the response head is written at most once; a failure after the
\* head was written writes no 500 head and no JSON error body, and the
\* handler terminates the response instead of leaving it to the pipe.
C21_NoRetroactiveError ==
    /\ [](\A r \in Slots : rq[r].resp.heads <= 1)
    /\ [][\A r \in Slots :
            FailsAfterHead(r)
            => /\ rq'[r].resp = rq[r].resp
               /\ ResponseEnded(rq'[r].resp)]_vars

\* the part of C21 that the code keeps: one head at most, and nothing
\* written to the response by a failure after the head
C21_NoSecondHead ==
    /\ [](\A r \in Slots : rq[r].resp.heads <= 1)
    /\ [][\A r \in Slots : FailsAfterHead(r) => rq'[r].resp = rq[r].resp]_vars

\* C22: directFetch terminates, whatever the upstream does: a request in
\* its fetch resolves with a terminal response or rejects, the redirects
\* it follows being capped.
C22_DirectFetchTerminates ==
    \A r \in Slots : (rq[r].pc = "fetch") ~> (rq[r].pc # "fetch")

\* name is what follows the last "/" of the path
IsLastSegment(name, path) ==
    /\ Positions(name, "/") = {}
    /\ \E i \in 1..Len(path) :
          path[i] = "/" /\ SubSeq(path, i + 1, Len(path)) = name

\* the name the claim gives the synthesized attachment
IsDownloadName(name, path) ==
    IF IsLastSegment(<<>>, path) THEN name = Download ELSE IsLastSegment(name, path)

\* C23: a streamed response carries a synthesized attachment disposition
\* exactly when the upstream declared none and its Content-Type does not
\* start with text/; the file name is the last path segment of the target
\* URL, or download when that is empty; an upstream disposition is
\* forwarded, and the status is the upstream's terminal status.
C23_DispositionSynthesis ==
    \A r \in Slots :
        (GotTerminal(r) /\ ~HtmlType(rq[r].term[1].contentType))
        => LET up == rq[r].term[1]
               d == rq[r].resp.dispo
               textual == StartsWith(up.contentType, TextSlash)
           IN /\ rq[r].resp.status = up.status
              /\ (d.kind = "synth") <=> (~up.disposition /\ ~textual)
              /\ (d.kind = "synth")
                 => IsDownloadName(d.filename, rq[r].req.url[1].pathname)
              /\ up.disposition => d.kind = "upstream"
              /\ (~up.disposition /\ textual) => d.kind = "none"

\* a response reached through a redirect got the name of the target URL,
\* and another one got the fallback name
C23_Witness ==
    /\ \E r \in Slots :
          /\ rq[r].pc = "done" /\ rq[r].resp.body.url = UrlPlain
          /\ rq[r].resp.dispo = [kind |-> "synth", filename |-> <<"g">>]
    /\ \E r \in Slots :
          /\ rq[r].pc = "done"
          /\ rq[r].resp.dispo = [kind |-> "synth", filename |-> Download]

(* ------------------------------------------------------------------ *)
(* Properties of the context cache on failures                          *)
(* ------------------------------------------------------------------ *)

\* slot r's getContext rejects in this step: loadSession or createContext
\* failed after a cache miss
FailsInGetContext(r) ==
    /\ rq[r].pc \in {"ctxLoad", "ctxCreate"}
    /\ rq'[r].pc = "done" /\ rq'[r].caught # ""

\* slot r's handler calls getContext in this step and misses the cache
MissesCache(r) ==
    /\ rq[r].pc = "fetch" /\ rq'[r].term # <<>>
    /\ HtmlType(rq'[r].term[1].contentType)
    /\ ~CacheHas(contextCache, rq[r].sessionPath)

\* C24: when getContext misses the cache and loading the session file or
\* creating the context fails, the cache is left as it was, the request
\* ends with a 500, and a later request that misses the cache loads the
\* file and creates a context again.
C24_CacheUnchangedOnFailure ==
    [][\A r \in Slots :
         /\ FailsInGetContext(r)
            => /\ contextCache' = contextCache
               /\ contexts' = contexts
               /\ rq'[r].ctx = 0
               /\ rq'[r].resp.heads = 1 /\ rq'[r].resp.status = 500
               /\ rq'[r].resp.body.kind = "json"
         /\ MissesCache(r) => rq'[r].pc = "ctxLoad"
         /\ (/\ rq[r].pc = "ctxLoad" /\ rq'[r] # rq[r]
             /\ loadSession(files[rq[r].sessionPath]).ok)
            => rq'[r].pc = "ctxCreate"]_vars

\* a createContext failed with a 500 and left no entry, and another
\* request for the same session path is creating a context
C24_Witness ==
    \E r1, r2 \in Slots :
        /\ rq[r1].pc = "done" /\ rq[r1].caught = "createContext failed"
        /\ rq[r1].resp.status = 500
        /\ rq[r2].sessionPath = rq[r1].sessionPath
        /\ rq[r2].pc = "ctxCreate"
        /\ ~CacheHas(contextCache, rq[r1].sessionPath)

(* ------------------------------------------------------------------ *)
(* Properties of handleRequest (src/unnamed/part_001)                   *)
(* ------------------------------------------------------------------ *)

\* handleRequest has returned or thrown
Settled == fn.f = "handleRequest" /\ fn.pc \in {"returned", "rejected"}

\* the download event fired while the navigation was pending or after it
\* had failed, within the wait
DownloadInTime == fn.dlAt \in {"beforeNavigation", "afterNavigationFailed"}

\* C25: handleRequest returns a download when the download event fires,
\* before the navigation settles or after it failed; after a navigation
\* error without a download it waits 5 seconds for the event and only then
\* fails with the navigation's error; when the navigation completes with
\* no download it returns the rendered page.
C25_DownloadRace ==
    /\ (fn.f = "handleRequest" /\ DownloadInTime)
       => /\ fn.pc = "returned"
          /\ fn.out = [type |-> "download", download |-> fn.download[1]]
    /\ (fn.f = "handleRequest" /\ fn.nav = "rejected" /\ ~DownloadInTime)
       => \/ fn.pc = "wait" /\ fn.waited <= WaitSeconds
          \/ /\ fn.pc = "rejected" /\ fn.waited = WaitSeconds
             /\ fn.out = [type |-> "error", message |-> fn.err]
    /\ (Settled /\ fn.nav = "resolved")
       => \/ fn.out = [type |-> "page", body |-> fn.url,
                       contentType |-> fn.response[1]]
          \/ fn.out = [type |-> "error", message |-> "content failed"]
    /\ (Settled /\ fn.out.type = "download") => DownloadInTime

\* the navigation failed, and the download event came in the third second
\* of the wait
C25_Witness ==
    /\ Settled /\ fn.nav = "rejected" /\ fn.waited = 3
    /\ fn.dlAt = "afterNavigationFailed"
    /\ fn.out.type = "download"

(* ------------------------------------------------------------------ *)
(* Properties of the cookies the direct fetcher sends                   *)
(* ------------------------------------------------------------------ *)

\* the pair is the name and value of a cookie of the record that passes
\* the domain, path and secure rules for the URL
MatchesFor(pair, rec, url) ==
    \E i \in 1..Len(rec.cookies) :
        /\ pair = <<rec.cookies[i].name, rec.cookies[i].value>>
        /\ DomainRule(rec.cookies[i].domain, url.hostname)
        /\ PathRule(rec.cookies[i], url)
        /\ SecureRule(rec.cookies[i], url)

\* C26: the Cookie header of every upstream request, the requests made by
\* following a redirect included, holds only cookies that match the URL
\* the request is sent to.
C26_CookiesOnlyWhereMatching ==
    \A r \in Slots :
        rq[r].pc = "fetch"
        => \A k \in 1..Len(rq[r].cookieHeader) :
              MatchesFor(rq[r].cookieHeader[k], rq[r].state, rq[r].curUrl)

\* the part of C26 that holds: the header of the first request, sent to
\* the target URL itself
C26_FirstRequestMatches ==
    \A r \in Slots :
        (rq[r].pc = "fetch" /\ rq[r].redirects = 0)
        => \A k \in 1..Len(rq[r].cookieHeader) :
              MatchesFor(rq[r].cookieHeader[k], rq[r].state, rq[r].curUrl)

(* ------------------------------------------------------------------ *)
(* Properties of the session file across the two paths                  *)
(* ------------------------------------------------------------------ *)

\* slot r's render request persists its context in this step (line 120),
\* and the request had loaded its session file when the file already held
\* the cookie of this name
PersistsAfterMerge(r, name) ==
    /\ rq[r].pc = "persist"
    /\ files'[rq[r].sessionPath] # files[rq[r].sessionPath]
    /\ HasCookie(rq[r].state, name)
    /\ files[rq[r].sessionPath].kind = "json"
    /\ HasCookie(files[rq[r].sessionPath].rec, name)

\* C27: a cookie that a DirectStream request merged into the session file
\* (cookie t, which no upstream replaces or removes) is still in the file
\* after a later render request persists the state of the session's
\* cached context.
C27_DirectCookiesSurvive ==
    [][\A r \in Slots :
         PersistsAfterMerge(r, <<"t">>)
         => /\ files'[rq[r].sessionPath].kind = "json"
            /\ HasCookie(files'[rq[r].sessionPath].rec, <<"t">>)]_vars

(* ------------------------------------------------------------------ *)
(* Properties of the shutdown under requests and repeated signals       *)
(* ------------------------------------------------------------------ *)

\* the runs of `shutdown` that are in their loop or closing the browser
ActiveRuns ==
    {i \in 1..Len(sd.runs) : sd.runs[i].pc \in {"persist", "close", "browserClose"}}

\* the runs of `shutdown` that have called browser.close()
BrowserCloseCalls ==
    {i \in 1..Len(sd.runs) : sd.runs[i].pc \in {"browserClose", "exit", "rejected"}}

\* C28: once shutdown has begun, every context in the cache when the
\* browser is closed has had a persist attempt made during shutdown; no
\* request creates a context or opens a page after the browser was
\* closed; and a second signal delivered while shutdown is running starts
\* no second persist-and-close pass and does not close the browser twice.
C28_ShutdownSafe ==
    /\ [](~proc.browserOpen
          => \A k \in 1..Len(contextCache) : contextCache[k][2] \in sd.persistTried)
    /\ [][~proc.browserOpen
           => /\ Len(contexts') = Len(contexts)
              /\ \A r \in Slots : rq'[r].page = "open" => rq[r].page = "open"]_vars
    /\ [](Cardinality(ActiveRuns) <= 1 /\ Cardinality(BrowserCloseCalls) <= 1)

\* two runs of `shutdown` have called browser.close()
C28_ClosedTwice == Cardinality(BrowserCloseCalls) = 2

(* ------------------------------------------------------------------ *)
(* Properties of updateSessionCookies over a batch of directives        *)
(* ------------------------------------------------------------------ *)

\* no two cookies of the sequence have the same name, domain and path
UniqueKeys(cookies) ==
    \A i, j \in 1..Len(cookies) :
        (/\ cookies[i].name = cookies[j].name
         /\ cookies[i].domain = cookies[j].domain
         /\ cookies[i].path = cookies[j].path) => i = j

\* directive k is the last of the batch that sets its key
LastOfKey(ds, k) ==
    /\ ds[k].cookie
    /\ \A j \in (k + 1)..Len(ds) :
          ds[j].cookie => ~(/\ ds[j].name = ds[k].name
                            /\ ds[j].domain = ds[k].domain
                            /\ ds[j].path = ds[k].path)

====
